---- MODULE Spec2Model ----
(***************************************************************************)
(* Model of the Socket.IO boilerplate.                                     *)
(*  - The worker-offload dispatcher: WorkerManager.processMessage /        *)
(*    WorkerBase.process on the main thread, the WorkerThread script in    *)
(*    the worker, and the 'message' / 'error' / 'exit' listeners that      *)
(*    settle the promise returned to the caller.                           *)
(*  - The two event buses: the static EventEmitter that SocketManager      *)
(*    emits on, and the singleton EventEmitter that wraps Node's emitter.  *)
(*  - RoomFactory and Room over the socket.io room sets, and the path of   *)
(*    a chat message from the socket listener to the room broadcast.       *)
(*  - The Redis adapter between two processes, the reconnection policy of  *)
(*    its clients, the worker's side-channel publish during an outage,     *)
(*    and the getInstance singletons.                                      *)
(***************************************************************************)
EXTENDS Integers, Sequences, FiniteSets, TLC

\* ------------------------------------------------------------------ bounds
\* Number of dispatch calls explored by the general specifications.
MaxTasks == 2
\* Number of handler registrations explored on the two event buses together.
MaxHandlers == 3
\* Number of broadcasts followed through the relay.
MaxCasts == 1
\* Reconnection attempts followed while a link stays down.
MaxAttempts == 42
\* Number of clock ticks a caller is observed waiting on one handle.
MaxWait == 1
\* The saturation scenario: submissions, pool size and queue bound of the claim.
Submissions == 5
PoolSize == 2
QueueBound == 1

\* ------------------------------------------------------- JavaScript values
Undefined == [js |-> "undefined"]
Null == [js |-> "null"]
\* A string built from a fixed text and an interpolated argument.
Str(text, arg) == [js |-> "string", text |-> text, arg |-> arg]
EmptyStr == Str("", "")
TextContent(chars) == [js |-> "string", chars |-> chars]
\* new Error(msg)
Error(msg) == [js |-> "Error", message |-> msg]
\* JavaScript truthiness of `result.error`: undefined and '' are falsy.
Truthy(v) == v \notin {Undefined, Null, EmptyStr}

\* Message payloads handed to the dispatcher: null (on which the analytics
\* strategy throws) and an object whose content is a string.
Messages ==
  { Null,
    [js |-> "object", content |-> TextContent(<<"h", "i", " ", "x">>)] }

\* Task ids passed to processMessage by its callers (GUIDE.md: 'task-123').
CallerIds == { <<"caller", "task-123">>, <<"caller", "task-456">> }
\* uuidv4(): a fresh identifier per call; n is the index of the call.
uuidv4(n) == <<"uuid", ToString(n)>>

\* ------------------------------------------------------ worker strategies
\* WorkerStrategy objects; only `name` travels to the worker.
ChatWorkerStrategy == [name |-> "chat"]
AnalyticsWorkerStrategy == [name |-> "analytics"]
\* A WorkerStrategy implementation that is registered nowhere.
CustomWorkerStrategy == [name |-> "custom"]

\* WorkerManager.strategies after registerStrategies().
strategies == [n \in {"chat", "analytics"} |->
                 IF n = "chat" THEN ChatWorkerStrategy ELSE AnalyticsWorkerStrategy]
StrategyNames == {"chat", "analytics", "unknown-kind"}

\* message.content.split(' ').length
SplitLength(chars) == 1 + Cardinality({i \in DOMAIN chars : chars[i] = " "})

\* Outcome of strategy.process(message) inside the worker: a returned value
\* or a thrown error.
Returned(v) == [threw |-> FALSE, value |-> v]
Threw(e) == [threw |-> TRUE, value |-> e]

ChatWorkerStrategyProcess(message) ==
  Returned([processed |-> TRUE, data |-> message, type |-> "chat"])

AnalyticsWorkerStrategyProcess(message) ==
  IF message \in {Null, Undefined}
  THEN Threw(Error(Str("Cannot read properties of null", "content")))
  ELSE Returned([processed |-> TRUE, data |-> message,
                 wordCount |-> IF message.content.js = "string"
                               THEN SplitLength(message.content.chars)
                               ELSE 0])

\* The `strategies` map of the WorkerThread script.
WorkerThreadStrategies == {"chat", "analytics"}

\* The one WorkerResult the WorkerThread script posts for its workerData.
WorkerThread(data) ==
  IF data.strategy \notin WorkerThreadStrategies
  THEN [taskId |-> data.taskId, result |-> Undefined,
        error |-> Str("Unknown strategy: ", data.strategy)]
  ELSE LET out == IF data.strategy = "chat"
                  THEN ChatWorkerStrategyProcess(data.message)
                  ELSE AnalyticsWorkerStrategyProcess(data.message)
       IN  IF out.threw
           THEN [taskId |-> data.taskId, result |-> Undefined,
                 error |-> out.value.message]
           ELSE [taskId |-> data.taskId, result |-> out.value,
                 error |-> Undefined]

\* JSON.stringify of a WorkerResult: keys whose value is undefined are dropped.
JSONStringify(m) ==
  [k \in {f \in DOMAIN m : m[f] # Undefined} |-> m[k]]

\* A chat payload {roomId, content, user}.
ChatPayload(roomId, user) ==
  [js |-> "object", roomId |-> roomId, content |-> TextContent(<<"h", "i">>),
   user |-> user, cyclic |-> FALSE]

\* ------------------------------------------------------------------- state
VARIABLES
  call,        \* per dispatch call: the arguments the caller passed
  returned,    \* per call: how the call came back ("promise" or "threw")
  handle,      \* per call: the promise returned to the caller
  settleCalls, \* per call: number of resolve()/reject() invocations so far
  settledBy,   \* per call: the worker event that settled the promise
  workerData,  \* per call: workerData of the Worker started for it
  worker,      \* per call: "none" | "running" | "completed" | "threw" | "crashed"
  posted,      \* per call: the messages the worker posted to its parent
  port,        \* per call: worker events not yet delivered to the listeners
  published,   \* per call: payloads its listener published on 'worker:results'
  waited,      \* per call: clock ticks elapsed while the handle was pending
  handlers,    \* static EventEmitter.handlers: event -> registered handlers
  emitter,     \* singleton EventEmitter.emitter: event -> Node listeners
  lastBusOp,   \* the most recent call on a bus and what it did
  started,     \* which entry point has run ("none" before it)
  conn,        \* per connection: "new" | "connected" | "closed"
  attached,    \* connections whose join:room / chat:message listeners exist
  rooms,       \* RoomFactory.rooms: group id -> Room instance
  created,     \* number of Room objects constructed so far
  adapterRooms,\* socket.io room sets: group id -> sockets in it, in join order
  lastRoomOp,  \* the most recent call on RoomFactory / Room and what it did
  left,        \* <<connection, group>> pairs whose latest call was leave
  sentJoin,    \* <<connection, group>> pairs for which join:room was sent
  chats,       \* per chat:message a client sent: what became of it
  peerRooms,   \* room sets of a second process on the same Redis
  casts,       \* per broadcast through the adapter: what was relayed to whom
  link,        \* per Redis client: connection state and retry attempts
  node,        \* the Node process: "running" | "crashed"
  sidePublishes, \* per publish on 'worker:results': the state of its promise
  instances    \* per singleton class: the instance held and the number built

workerVars == <<call, returned, handle, settleCalls, settledBy, workerData,
                worker, posted, port, published, waited>>
busVars == <<handlers, emitter, lastBusOp>>
serverVars == <<started, conn, attached>>
roomVars == <<rooms, created, adapterRooms, lastRoomOp, left>>
chatVars == <<sentJoin, chats>>
\* Everything outside the worker dispatcher.
appVars == <<busVars, serverVars, roomVars, chatVars>>
relayVars == <<peerRooms, casts, link>>
runtimeVars == <<node, sidePublishes>>
singletonVars == <<instances>>
\* The relay, the process and the singletons.
extVars == <<relayVars, runtimeVars, singletonVars>>
vars == <<workerVars, busVars, serverVars, roomVars, chatVars, extVars>>

NoData == [js |-> "none"]
NoEvent == [type |-> "none"]
Pending == [state |-> "pending", value |-> Undefined]

Tasks == DOMAIN handle

\* Keys of EventMap that the application emits.
EventNames == {"client:connect", "client:disconnect", "chat:message"}
\* Socket connections (socket ids) and the group ids clients ask for.
Conns == {"c1", "c2"}
GroupIds == {"lobby", "games"}
NoOp == [op |-> "none"]
\* RoomFactory.rooms has no entry for the id.
NoRoom == [id |-> "", inst |-> 0]
\* The ioredis clients: the adapter's two and the one of WorkerBase.
RedisClients == {"Publisher", "Subscriber", "redisPub"}
\* A client with its link up; times counts the retries of the current outage.
Connected == [up |-> TRUE, times |-> 0, delay |-> 0]
\* Classes with a static `instance` field and getInstance().
SingletonClasses == {"SocketManager", "EventEmitter"}
\* `instance` is undefined and nothing was constructed.
NoInstance == [held |-> 0, constructed |-> 0, first |-> 0, last |-> 0]

Init ==
  /\ call = <<>>
  /\ returned = <<>>
  /\ handle = <<>>
  /\ settleCalls = <<>>
  /\ settledBy = <<>>
  /\ workerData = <<>>
  /\ worker = <<>>
  /\ posted = <<>>
  /\ port = <<>>
  /\ published = <<>>
  /\ waited = <<>>
  /\ handlers = [e \in EventNames |-> <<>>]
  /\ emitter = [e \in EventNames |-> <<>>]
  /\ lastBusOp = NoOp
  /\ started = "none"
  /\ conn = [c \in Conns |-> "new"]
  /\ attached = {}
  /\ rooms = [g \in GroupIds |-> NoRoom]
  /\ created = 0
  /\ adapterRooms = [g \in GroupIds |-> <<>>]
  /\ lastRoomOp = NoOp
  /\ left = {}
  /\ sentJoin = {}
  /\ chats = <<>>
  /\ peerRooms = [g \in GroupIds |-> <<>>]
  /\ casts = <<>>
  /\ link = [r \in RedisClients |-> Connected]
  /\ node = "running"
  /\ sidePublishes = <<>>
  /\ instances = [k \in SingletonClasses |-> NoInstance]

\* ----------------------------------------------------------------- promise
\* Mutant: a handle that every resolve/reject call overwrites.
SettleOverwrites(h, state, value) == [state |-> state, value |-> value]

\* resolve(v) / reject(e) of a promise: only a pending promise changes.
Settle(h, state, value) ==
  IF h.state = "pending" THEN [state |-> state, value |-> value] ELSE h

\* ---------------------------------------------------------------- dispatch
\* new Worker(workerPath, {workerData: {taskId, message, strategy: name}})
NewWorkerData(taskId, message, strategy) ==
  [taskId |-> taskId, message |-> message, strategy |-> strategy.name]

\* Mutant: process that runs the strategy on the calling thread and comes
\* back with the task already done.
WorkerBaseProcessBlocking(taskId, message, strategy, via) ==
  /\ call' = Append(call, [taskId |-> taskId, message |-> message,
                           strategy |-> strategy.name, via |-> via])
  /\ returned' = Append(returned, "promise")
  /\ handle' = Append(handle, [state |-> "resolved", value |-> Undefined])
  /\ settleCalls' = Append(settleCalls, 1)
  /\ settledBy' = Append(settledBy, [type |-> "inline"])
  /\ workerData' = Append(workerData, NewWorkerData(taskId, message, strategy))
  /\ worker' = Append(worker, "completed")
  /\ posted' = Append(posted, <<>>)
  /\ port' = Append(port, <<>>)
  /\ published' = Append(published, <<>>)
  /\ waited' = Append(waited, 0)

\* WorkerBase.process: a promise, a Worker of its own, three listeners.
WorkerBaseProcess(taskId, message, strategy, via) ==
  /\ call' = Append(call, [taskId |-> taskId, message |-> message,
                           strategy |-> strategy.name, via |-> via])
  /\ returned' = Append(returned, "promise")
  /\ handle' = Append(handle, Pending)
  /\ settleCalls' = Append(settleCalls, 0)
  /\ settledBy' = Append(settledBy, NoEvent)
  /\ workerData' = Append(workerData, NewWorkerData(taskId, message, strategy))
  /\ worker' = Append(worker, "running")
  /\ posted' = Append(posted, <<>>)
  /\ port' = Append(port, <<>>)
  /\ published' = Append(published, <<>>)
  /\ waited' = Append(waited, 0)

\* Mutant: processMessage without `async`, whose throw reaches the caller.
UnknownStrategyThrowsSync(taskId, message, strategyName, via) ==
  /\ call' = Append(call, [taskId |-> taskId, message |-> message,
                           strategy |-> strategyName, via |-> via])
  /\ returned' = Append(returned, "threw")
  /\ handle' = Append(handle, [state |-> "none", value |-> Undefined])
  /\ settleCalls' = Append(settleCalls, 0)
  /\ settledBy' = Append(settledBy, NoEvent)
  /\ workerData' = Append(workerData, NoData)
  /\ worker' = Append(worker, "none")
  /\ posted' = Append(posted, <<>>)
  /\ port' = Append(port, <<>>)
  /\ published' = Append(published, <<>>)
  /\ waited' = Append(waited, 0)

\* The branch of processMessage for a name that is not in `strategies`: the
\* async function's throw rejects the promise it returns; no Worker exists.
UnknownStrategy(taskId, message, strategyName, via) ==
  /\ call' = Append(call, [taskId |-> taskId, message |-> message,
                           strategy |-> strategyName, via |-> via])
  /\ returned' = Append(returned, "promise")
  /\ handle' = Append(handle,
                      [state |-> "rejected",
                       value |-> Error(Str("Unknown strategy: ", strategyName))])
  /\ settleCalls' = Append(settleCalls, 1)
  /\ settledBy' = Append(settledBy, [type |-> "throw"])
  /\ workerData' = Append(workerData, NoData)
  /\ worker' = Append(worker, "none")
  /\ posted' = Append(posted, <<>>)
  /\ port' = Append(port, <<>>)
  /\ published' = Append(published, <<>>)
  /\ waited' = Append(waited, 0)

\* WorkerManager.processMessage(taskId, message, strategyName); its promise
\* follows the promise of process (await, log, rethrow).
DispatchVia(taskId, message, strategyName, via) ==
  IF strategyName \in DOMAIN strategies
  THEN WorkerBaseProcess(taskId, message, strategies[strategyName], via)
  ELSE UnknownStrategy(taskId, message, strategyName, via)

ProcessMessage(taskId, message, strategyName) ==
  DispatchVia(taskId, message, strategyName, "processMessage")

\* A direct call of the public WorkerBase.process with a strategy object.
Process(taskId, message, strategy) ==
  WorkerBaseProcess(taskId, message, strategy, "process")

\* ChatStrategy.process up to its await: a uuid, then processMessage 'chat'.
ChatStrategyProcess(message) ==
  DispatchVia(uuidv4(Len(handle) + 1), message, "chat", "ChatStrategy")

\* ------------------------------------------------------------ worker thread
MessageEvent(m) == [type |-> "message", data |-> m, code |-> 0]
ErrorEvent(e) == [type |-> "error", data |-> e, code |-> 0]
ExitEvent(code) == [type |-> "exit", data |-> Undefined, code |-> code]

\* Mutant: a script that posts its WorkerResult twice.
WorkerThreadRunPostsTwice(t) ==
  /\ t \in Tasks
  /\ worker[t] = "running"
  /\ LET m == WorkerThread(workerData[t])
     IN  /\ posted' = [posted EXCEPT ![t] = @ \o <<m, m>>]
         /\ port' = [port EXCEPT ![t] =
                       @ \o <<MessageEvent(m), MessageEvent(m), ExitEvent(0)>>]
  /\ worker' = [worker EXCEPT ![t] = "completed"]
  /\ UNCHANGED <<call, returned, handle, settleCalls, settledBy, workerData,
                 published, waited>>

\* The WorkerThread script runs to its end: one postMessage, then exit 0.
WorkerThreadRun(t) ==
  /\ t \in Tasks
  /\ worker[t] = "running"
  /\ LET m == WorkerThread(workerData[t])
     IN  /\ posted' = [posted EXCEPT ![t] = Append(@, m)]
         /\ port' = [port EXCEPT ![t] = @ \o <<MessageEvent(m), ExitEvent(0)>>]
  /\ worker' = [worker EXCEPT ![t] = "completed"]
  /\ UNCHANGED <<call, returned, handle, settleCalls, settledBy, workerData,
                 published, waited>>

\* The worker dies of an uncaught fault before the script posts: Node emits
\* 'error' and then 'exit' with code 1.
WorkerFault(t) ==
  /\ t \in Tasks
  /\ worker[t] = "running"
  /\ port' = [port EXCEPT ![t] =
                @ \o <<ErrorEvent(Error(Str("uncaught fault", ""))), ExitEvent(1)>>]
  /\ worker' = [worker EXCEPT ![t] = "crashed"]
  /\ UNCHANGED <<call, returned, handle, settleCalls, settledBy, workerData,
                 posted, published, waited>>

\* The worker is stopped from outside before the script posts: 'exit' with a
\* non-zero code and no 'error'.
WorkerKilled(t) ==
  /\ t \in Tasks
  /\ worker[t] = "running"
  /\ port' = [port EXCEPT ![t] = @ \o <<ExitEvent(1)>>]
  /\ worker' = [worker EXCEPT ![t] = "crashed"]
  /\ UNCHANGED <<call, returned, handle, settleCalls, settledBy, workerData,
                 posted, published, waited>>

\* ------------------------------------------- a worker strategy of one's own
\* What a WorkerStrategy added as GUIDE.md describes (registered in
\* WorkerManager and in the WorkerThread script) may do in process(): return
\* a value, or throw an Error with a message, an Error with an empty
\* message, or a value that is no Error.
CustomOutcomes ==
  { Returned([processed |-> TRUE]),
    Threw(Error(Str("image not found", ""))),
    Threw(Error(EmptyStr)),
    Threw(Str("image not found", "")) }

\* (error as Error).message
MessageOf(thrown) == IF thrown.js = "Error" THEN thrown.message ELSE Undefined

\* The try/catch of the WorkerThread script around strategy.process(message).
WorkerThreadReport(taskId, out) ==
  IF out.threw
  THEN [taskId |-> taskId, result |-> Undefined, error |-> MessageOf(out.value)]
  ELSE [taskId |-> taskId, result |-> out.value, error |-> Undefined]

\* The WorkerThread script runs the added strategy to its end.
CustomStrategyRun(t, out) ==
  /\ t \in Tasks
  /\ worker[t] = "running"
  /\ workerData[t].strategy = CustomWorkerStrategy.name
  /\ LET m == WorkerThreadReport(workerData[t].taskId, out)
     IN  /\ posted' = [posted EXCEPT ![t] = Append(@, m)]
         /\ port' = [port EXCEPT ![t] = @ \o <<MessageEvent(m), ExitEvent(0)>>]
  /\ worker' = [worker EXCEPT ![t] = IF out.threw THEN "threw" ELSE "completed"]
  /\ UNCHANGED <<call, returned, handle, settleCalls, settledBy, workerData,
                 published, waited>>

\* ---------------------------------------------------------------- listeners
\* Mutant: results correlated by submission order, settling the oldest
\* pending handle.
ListenerHandleBySubmissionOrder(w) ==
  LET P == {t \in Tasks : handle[t].state = "pending"}
  IN  IF P = {} THEN w ELSE CHOOSE t \in P : \A u \in P : t <= u

\* The promise whose resolve/reject the listeners registered on worker w
\* close over: the one created by the same call of process.
ListenerHandle(w) == w

\* The handle (and its ghost record) after a listener of worker w calls
\* resolve/reject because of event ev.
SettleTask(w, state, value, ev) ==
  LET t == ListenerHandle(w)
  IN  /\ handle' = [handle EXCEPT ![t] = Settle(@, state, value)]
      /\ settleCalls' = [settleCalls EXCEPT ![t] = @ + 1]
      /\ settledBy' = [settledBy EXCEPT ![t] =
                         IF handle[t].state = "pending"
                         THEN [type |-> ev.type, from |-> w, data |-> ev.data]
                         ELSE @]

\* Mutant: only the result value is published, without its task id.
PublishResultOnly(result) ==
  [channel |-> "worker:results",
   payload |-> JSONStringify([result |-> result.result])]

\* this.redisPub.publish('worker:results', JSON.stringify(result))
Publish(result) ==
  [channel |-> "worker:results", payload |-> JSONStringify(result)]

\* worker.on('message', ...)
OnMessage(t) ==
  /\ t \in Tasks
  /\ port[t] # <<>>
  /\ Head(port[t]).type = "message"
  /\ LET ev == Head(port[t])
         result == ev.data
     IN  IF Truthy(result.error)
         THEN /\ SettleTask(t, "rejected", Error(result.error), ev)
              /\ UNCHANGED published
         ELSE /\ published' = [published EXCEPT ![t] = Append(@, Publish(result))]
              /\ SettleTask(t, "resolved", Undefined, ev)
  /\ port' = [port EXCEPT ![t] = Tail(@)]
  /\ UNCHANGED <<call, returned, workerData, worker, posted, waited>>

\* worker.on('error', ...)
OnError(t) ==
  /\ t \in Tasks
  /\ port[t] # <<>>
  /\ Head(port[t]).type = "error"
  /\ SettleTask(t, "rejected", Head(port[t]).data, Head(port[t]))
  /\ port' = [port EXCEPT ![t] = Tail(@)]
  /\ UNCHANGED <<call, returned, workerData, worker, posted, published, waited>>

\* Mutant: an 'exit' listener that ignores the exit code.
OnExitIgnoresCode(t) ==
  /\ t \in Tasks
  /\ port[t] # <<>>
  /\ Head(port[t]).type = "exit"
  /\ port' = [port EXCEPT ![t] = Tail(@)]
  /\ UNCHANGED <<call, returned, handle, settleCalls, settledBy, workerData,
                 worker, posted, published, waited>>

\* worker.on('exit', ...)
OnExit(t) ==
  /\ t \in Tasks
  /\ port[t] # <<>>
  /\ Head(port[t]).type = "exit"
  /\ LET ev == Head(port[t])
     IN  IF ev.code # 0
         THEN SettleTask(t, "rejected",
                         Error(Str("Worker stopped with exit code ",
                                   ToString(ev.code))), ev)
         ELSE UNCHANGED <<handle, settleCalls, settledBy>>
  /\ port' = [port EXCEPT ![t] = Tail(@)]
  /\ UNCHANGED <<call, returned, workerData, worker, posted, published, waited>>

\* Time passes while callers wait on their handles; the code arms no timer.
Tick ==
  /\ \E t \in Tasks : handle[t].state = "pending" /\ waited[t] < MaxWait
  /\ waited' = [t \in Tasks |->
                  IF handle[t].state = "pending" /\ waited[t] < MaxWait
                  THEN waited[t] + 1 ELSE waited[t]]
  /\ UNCHANGED <<call, returned, handle, settleCalls, settledBy, workerData,
                 worker, posted, port, published>>

\* ---------------------------------------------------------------- event bus
\* Handlers that callers register; h2 throws whenever it is invoked.
HandlerIds == {"h1", "h2", "h3"}
Throwing == {"h2"}

\* A function value as the bus stores it: the handler itself, or the
\* wrappedHandler closure that the singleton's `on` builds around it.
Fn(h) == [fn |-> h, wrapper |-> FALSE]
Wrapped(h) == [fn |-> h, wrapper |-> TRUE]
Invocation(h, args) == [handler |-> h, args |-> args]
NoTrace == [invoked |-> <<>>, threw |-> FALSE, logged |-> <<>>]

\* The Socket argument of an event. A socket.io Socket is an object graph
\* with a cycle (its namespace's server refers back to the namespace); a
\* plain stand-in with an id has none.
Socket(c) == [js |-> "Socket", id |-> c, cyclic |-> TRUE]
PlainSocket(c) == [js |-> "Socket", id |-> c, cyclic |-> FALSE]

\* Arguments passed after the event name (EventMap).
EmitArgs(e) ==
  IF e = "chat:message"
  THEN {<<Socket("c1"), ChatPayload("lobby", "c1")>>,
        <<PlainSocket("c1"), ChatPayload("lobby", "c1")>>}
  ELSE {<<Socket("c1")>>, <<PlainSocket("c1")>>}

\* JSON.stringify(args) throws a TypeError on a value with a cycle.
StringifyThrows(args) == \E i \in DOMAIN args : args[i].cyclic

\* handlers.forEach(h => h.handle(socket, ...args)): a throw leaves the loop
\* and the caller of emit sees it.
RECURSIVE ForEachHandle(_, _)
ForEachHandle(list, args) ==
  IF list = <<>>
  THEN NoTrace
  ELSE LET h == Head(list).fn
           rest == ForEachHandle(Tail(list), args)
       IN  IF h \in Throwing
           THEN [invoked |-> <<Invocation(h, args)>>, threw |-> TRUE,
                 logged |-> <<>>]
           ELSE [invoked |-> <<Invocation(h, args)>> \o rest.invoked,
                 threw |-> rest.threw, logged |-> <<>>]

\* static on(event, handler): get-or-create the list and push.
StaticOn(list, h) == Append(list, Fn(h))

\* static emit(event, socket, ...args)
StaticEmit(list, args) == ForEachHandle(list, args)

\* Node's emitter.emit: the listeners in the order they were added. A
\* wrappedHandler catches what its handler throws and logs it.
RECURSIVE NodeEmit(_, _)
NodeEmit(list, args) ==
  IF list = <<>>
  THEN NoTrace
  ELSE LET l == Head(list)
           rest == NodeEmit(Tail(list), args)
       IN  IF l.fn \in Throwing /\ ~l.wrapper
           THEN [invoked |-> <<Invocation(l.fn, args)>>, threw |-> TRUE,
                 logged |-> <<>>]
           ELSE [invoked |-> <<Invocation(l.fn, args)>> \o rest.invoked,
                 threw |-> rest.threw,
                 logged |-> (IF l.fn \in Throwing THEN <<l.fn>> ELSE <<>>)
                              \o rest.logged]

\* Node's emitter.off: removes the most recently added listener that is the
\* given function.
RECURSIVE RemoveListener(_, _)
RemoveListener(list, fn) ==
  IF list = <<>>
  THEN <<>>
  ELSE LET n == Len(list)
       IN  IF list[n] = fn
           THEN SubSeq(list, 1, n - 1)
           ELSE Append(RemoveListener(SubSeq(list, 1, n - 1), fn), list[n])

\* on(event, handler): this.emitter.on(event, wrappedHandler)
InstanceOn(list, h) == Append(list, Wrapped(h))

\* emit(event, ...args): the debug line is built from JSON.stringify(args)
\* before this.emitter.emit(event, ...args) is reached.
InstanceEmit(list, args) ==
  IF StringifyThrows(args)
  THEN [invoked |-> <<>>, threw |-> TRUE, logged |-> <<>>]
  ELSE NodeEmit(list, args)

\* off(event, handler): this.emitter.off(event, handler), with the handler the
\* caller holds, not the wrappedHandler that `on` registered.
InstanceOff(list, h) == RemoveListener(list, Fn(h))

RECURSIVE TotalLen(_, _)
TotalLen(f, events) ==
  IF events = {} THEN 0
  ELSE LET e == CHOOSE x \in events : TRUE
       IN  Len(f[e]) + TotalLen(f, events \ {e})
Registrations == TotalLen(handlers, EventNames) + TotalLen(emitter, EventNames)

EventEmitterStaticOn(e, h) ==
  /\ handlers' = [handlers EXCEPT ![e] = StaticOn(@, h)]
  /\ lastBusOp' = [op |-> "on", bus |-> "static", event |-> e, handler |-> h,
                   before |-> handlers[e], after |-> handlers'[e]]
  /\ UNCHANGED emitter

EventEmitterStaticEmit(e, args) ==
  /\ UNCHANGED <<handlers, emitter>>
  /\ lastBusOp' = [op |-> "emit", bus |-> "static", event |-> e, args |-> args,
                   regs |-> handlers[e], trace |-> StaticEmit(handlers[e], args),
                   before |-> <<handlers, emitter>>,
                   after |-> <<handlers', emitter'>>]

EventEmitterOn(e, h) ==
  /\ emitter' = [emitter EXCEPT ![e] = InstanceOn(@, h)]
  /\ lastBusOp' = [op |-> "on", bus |-> "instance", event |-> e, handler |-> h,
                   before |-> emitter[e], after |-> emitter'[e]]
  /\ UNCHANGED handlers

EventEmitterEmit(e, args) ==
  /\ UNCHANGED <<handlers, emitter>>
  /\ lastBusOp' = [op |-> "emit", bus |-> "instance", event |-> e,
                   args |-> args, regs |-> emitter[e],
                   trace |-> InstanceEmit(emitter[e], args),
                   before |-> <<handlers, emitter>>,
                   after |-> <<handlers', emitter'>>]

EventEmitterOff(e, h) ==
  /\ emitter' = [emitter EXCEPT ![e] = InstanceOff(@, h)]
  /\ lastBusOp' = [op |-> "off", bus |-> "instance", event |-> e,
                   handler |-> h, before |-> emitter[e], after |-> emitter'[e]]
  /\ UNCHANGED handlers

\* --------------------------------------------------- entry point, sockets
\* index.ts, first form: SocketManager.getInstance(), then the connect
\* handler and the ChatHandler on the static bus.
IndexStatic ==
  /\ started = "none"
  /\ started' = "static"
  /\ handlers' = [handlers EXCEPT
                    !["client:connect"] = StaticOn(@, "ClientConnect"),
                    !["chat:message"] = StaticOn(@, "ChatHandler")]
  /\ lastBusOp' = [op |-> "on", bus |-> "static", event |-> "chat:message",
                   handler |-> "ChatHandler",
                   before |-> handlers["chat:message"],
                   after |-> handlers'["chat:message"]]
  /\ UNCHANGED <<emitter, conn, attached, roomVars, chatVars>>

\* index.ts, second form: SocketManager.getInstance(), then
\* ClientConnectHandler and ChatMessageHandler on the singleton bus.
IndexInstance ==
  /\ started = "none"
  /\ started' = "instance"
  /\ emitter' = [emitter EXCEPT
                   !["client:connect"] = InstanceOn(@, "ClientConnectHandler"),
                   !["chat:message"] = InstanceOn(@, "ChatMessageHandler")]
  /\ lastBusOp' = [op |-> "on", bus |-> "instance", event |-> "chat:message",
                   handler |-> "ChatMessageHandler",
                   before |-> emitter["chat:message"],
                   after |-> emitter'["chat:message"]]
  /\ UNCHANGED <<handlers, conn, attached, roomVars, chatVars>>

\* The handlers of a trace that attach the socket's join:room and
\* chat:message listeners when invoked.
Attaches(trace) ==
  \E i \in DOMAIN trace.invoked :
    trace.invoked[i].handler \in {"ClientConnect", "ClientConnectHandler"}

\* Mutant: a 'connection' event reported again for a socket already open.
TransportConnectAgain(c) ==
  /\ started # "none"
  /\ conn[c] \in {"new", "connected"}
  /\ conn' = [conn EXCEPT ![c] = "connected"]
  /\ LET trace == StaticEmit(handlers["client:connect"], <<Socket(c)>>)
     IN  /\ attached' = IF Attaches(trace) THEN attached \cup {c} ELSE attached
         /\ lastBusOp' = [op |-> "emit", bus |-> "static",
                          event |-> "client:connect", args |-> <<Socket(c)>>,
                          regs |-> handlers["client:connect"], trace |-> trace,
                          before |-> <<handlers, emitter>>,
                          after |-> <<handlers, emitter>>]
  /\ UNCHANGED <<handlers, emitter, started, roomVars, chatVars>>

\* SocketManager.setupEvents, io.on('connection'): the static
\* EventEmitter.emit('client:connect', socket).
TransportConnect(c) ==
  /\ started # "none"
  /\ conn[c] = "new"
  /\ conn' = [conn EXCEPT ![c] = "connected"]
  /\ LET trace == StaticEmit(handlers["client:connect"], <<Socket(c)>>)
     IN  /\ attached' = IF Attaches(trace) THEN attached \cup {c} ELSE attached
         /\ lastBusOp' = [op |-> "emit", bus |-> "static",
                          event |-> "client:connect", args |-> <<Socket(c)>>,
                          regs |-> handlers["client:connect"], trace |-> trace,
                          before |-> <<handlers, emitter>>,
                          after |-> <<handlers, emitter>>]
  /\ UNCHANGED <<handlers, emitter, started, roomVars, chatVars>>

\* The sockets of a room set without one socket.
RECURSIVE Without(_, _)
Without(members, c) ==
  IF members = <<>> THEN <<>>
  ELSE IF Head(members) = c THEN Without(Tail(members), c)
  ELSE <<Head(members)>> \o Without(Tail(members), c)

\* Mutant: a disconnect that drops the Room of a group left without members.
TransportDisconnectEvictsEmptyRooms(c) ==
  /\ conn[c] = "connected"
  /\ conn' = [conn EXCEPT ![c] = "closed"]
  /\ attached' = attached \ {c}
  /\ adapterRooms' = [g \in GroupIds |-> Without(adapterRooms[g], c)]
  /\ rooms' = [g \in GroupIds |->
                 IF Without(adapterRooms[g], c) = <<>>
                 THEN [id |-> "", inst |-> 0] ELSE rooms[g]]
  /\ lastBusOp' = [op |-> "emit", bus |-> "static",
                   event |-> "client:disconnect", args |-> <<Socket(c)>>,
                   regs |-> handlers["client:disconnect"],
                   trace |-> StaticEmit(handlers["client:disconnect"],
                                        <<Socket(c)>>),
                   before |-> <<handlers, emitter>>,
                   after |-> <<handlers, emitter>>]
  /\ lastRoomOp' = [op |-> "disconnect", conn |-> c]
  /\ UNCHANGED <<handlers, emitter, started, created, left, chatVars>>

\* Mutant: a closed socket that stays in its rooms.
TransportDisconnectKeepsRooms(c) ==
  /\ conn[c] = "connected"
  /\ conn' = [conn EXCEPT ![c] = "closed"]
  /\ attached' = attached \ {c}
  /\ lastBusOp' = [op |-> "emit", bus |-> "static",
                   event |-> "client:disconnect", args |-> <<Socket(c)>>,
                   regs |-> handlers["client:disconnect"],
                   trace |-> StaticEmit(handlers["client:disconnect"],
                                        <<Socket(c)>>),
                   before |-> <<handlers, emitter>>,
                   after |-> <<handlers, emitter>>]
  /\ lastRoomOp' = [op |-> "disconnect", conn |-> c]
  /\ UNCHANGED <<handlers, emitter, started, rooms, created, adapterRooms,
                 left, chatVars>>

\* A socket closes: socket.io takes it out of every room set, then the
\* 'disconnect' listener emits client:disconnect on the static bus.
TransportDisconnect(c) ==
  /\ conn[c] = "connected"
  /\ conn' = [conn EXCEPT ![c] = "closed"]
  /\ attached' = attached \ {c}
  /\ adapterRooms' = [g \in GroupIds |-> Without(adapterRooms[g], c)]
  /\ lastBusOp' = [op |-> "emit", bus |-> "static",
                   event |-> "client:disconnect", args |-> <<Socket(c)>>,
                   regs |-> handlers["client:disconnect"],
                   trace |-> StaticEmit(handlers["client:disconnect"],
                                        <<Socket(c)>>),
                   before |-> <<handlers, emitter>>,
                   after |-> <<handlers, emitter>>]
  /\ lastRoomOp' = [op |-> "disconnect", conn |-> c]
  /\ UNCHANGED <<handlers, emitter, started, rooms, created, left, chatVars>>

\* ------------------------------------------------------------------- rooms
\* new Room(id); inst tells one Room object from another.
Room(id, inst) == [id |-> id, inst |-> inst]

\* Mutant: a factory that constructs a Room and does not keep it.
GetRoomNoInsert(map, count, roomId) ==
  IF map[roomId] = NoRoom
  THEN [rooms |-> map, created |-> count + 1, room |-> Room(roomId, count + 1)]
  ELSE [rooms |-> map, created |-> count, room |-> map[roomId]]

\* Mutant: a factory that constructs a Room on every call.
GetRoomAlwaysNew(map, count, roomId) ==
  [rooms |-> [map EXCEPT ![roomId] = Room(roomId, count + 1)],
   created |-> count + 1,
   room |-> Room(roomId, count + 1)]

\* RoomFactory.getRoom(roomId): the map and the object count after the call,
\* and the Room it returns.
GetRoom(map, count, roomId) ==
  IF map[roomId] = NoRoom
  THEN [rooms |-> [map EXCEPT ![roomId] = Room(roomId, count + 1)],
        created |-> count + 1,
        room |-> Room(roomId, count + 1)]
  ELSE [rooms |-> map, created |-> count, room |-> map[roomId]]

\* Mutant: a room that keeps one entry per join call.
SocketJoinAppends(members, c) == Append(members, c)

\* socket.join(room): the room is a set of socket ids.
SocketJoin(members, c) ==
  IF \E i \in DOMAIN members : members[i] = c
  THEN members
  ELSE Append(members, c)

Delivery(c, event, message) == [to |-> c, event |-> event, payload |-> message]

\* Mutant: a broadcast that also answers the calling socket.
BroadcastAndEcho(members, socket, event, message) ==
  [i \in DOMAIN members |-> Delivery(members[i], event, message)]
    \o (IF \E i \in DOMAIN members : members[i] = socket
        THEN <<>> ELSE <<Delivery(socket, event, message)>>)

\* Mutant: a broadcast that is made only for a sender in the room.
BroadcastIfSenderJoined(members, socket, event, message) ==
  IF \E i \in DOMAIN members : members[i] = socket
  THEN [i \in DOMAIN members |-> Delivery(members[i], event, message)]
  ELSE <<>>

\* Mutant: socket.to(id).emit, which leaves the calling socket out.
BroadcastToOthers(members, socket, event, message) ==
  LET others == Without(members, socket)
  IN  [i \in DOMAIN others |-> Delivery(others[i], event, message)]

\* Room.broadcast(socket, event, message): this.io.to(this.id).emit(event,
\* message) sends to every socket of the room set.
Broadcast(members, socket, event, message) ==
  [i \in DOMAIN members |-> Delivery(members[i], event, message)]

\* RoomFactory.getRoom(roomId) called by any code.
RoomFactoryGetRoom(g) ==
  LET got == GetRoom(rooms, created, g)
  IN  /\ rooms' = got.rooms
      /\ created' = got.created
      /\ lastRoomOp' = [op |-> "getRoom", id |-> g, room |-> got.room,
                        before |-> rooms[g]]
      /\ UNCHANGED <<busVars, serverVars, adapterRooms, left, chatVars>>

\* A client sends join:room. The socket's listener, if one was attached,
\* runs RoomFactory.getRoom(roomId).join(socket).
SendJoinRoom(c, g) ==
  /\ conn[c] = "connected"
  /\ sentJoin' = sentJoin \cup {<<c, g>>}
  /\ IF c \in attached
     THEN LET got == GetRoom(rooms, created, g)
          IN  /\ rooms' = got.rooms
              /\ created' = got.created
              /\ adapterRooms' = [adapterRooms EXCEPT
                                    ![got.room.id] = SocketJoin(@, c)]
              /\ left' = left \ {<<c, g>>}
              /\ lastRoomOp' = [op |-> "join", conn |-> c, id |-> g,
                                room |-> got.room,
                                before |-> adapterRooms[g],
                                after |-> adapterRooms'[g]]
     ELSE UNCHANGED roomVars
  /\ UNCHANGED <<busVars, serverVars, chats>>

\* room.broadcast(socket, event, message) on the Room of a group, called by
\* any code that holds a connected socket.
RoomBroadcast(c, g, event, message) ==
  /\ conn[c] = "connected"
  /\ LET got == GetRoom(rooms, created, g)
     IN  /\ rooms' = got.rooms
         /\ created' = got.created
         /\ lastRoomOp' = [op |-> "broadcast", conn |-> c, id |-> g,
                           room |-> got.room, members |-> adapterRooms[g],
                           sends |-> Broadcast(adapterRooms[got.room.id], c,
                                               event, message),
                           event |-> event, payload |-> message]
  /\ UNCHANGED <<busVars, serverVars, adapterRooms, left, chatVars>>

\* room.leave(socket): Room declares join and broadcast only, so the call is
\* a TypeError (`room.leave is not a function`) and no room set changes.
RoomLeave(c, g) ==
  /\ conn[c] = "connected"
  /\ left' = left \cup {<<c, g>>}
  /\ lastRoomOp' = [op |-> "leave", conn |-> c, id |-> g, threw |-> TRUE,
                    before |-> adapterRooms[g], after |-> adapterRooms[g]]
  /\ UNCHANGED <<busVars, serverVars, rooms, created, adapterRooms, chatVars>>

\* ---------------------------------------------------------------- singletons
\* Mutant: getInstance without the test of the static field.
GetInstanceAlwaysNew(inst) ==
  [held |-> inst.constructed + 1, constructed |-> inst.constructed + 1,
   first |-> IF inst.first = 0 THEN inst.constructed + 1 ELSE inst.first,
   last |-> inst.constructed + 1]

\* getInstance(): construct and keep an object if the static field holds
\* none, then return what the field holds. Objects are numbered in the order
\* of their construction; `first` and `last` are what the first and the
\* latest call returned.
GetInstance(inst) ==
  LET made == inst.held = 0
      held == IF made THEN inst.constructed + 1 ELSE inst.held
  IN  [held |-> held,
       constructed |-> IF made THEN inst.constructed + 1 ELSE inst.constructed,
       first |-> IF inst.first = 0 THEN held ELSE inst.first,
       last |-> held]

\* The getInstance calls a step makes: of SocketManager, of EventEmitter.
SingletonCalls(socketManager, eventEmitter) ==
  /\ instances' = [instances EXCEPT
                     !["SocketManager"] = IF socketManager THEN GetInstance(@) ELSE @,
                     !["EventEmitter"] = IF eventEmitter THEN GetInstance(@) ELSE @]
  /\ UNCHANGED <<relayVars, runtimeVars>>

\* ------------------------------------------------------------------- relay
\* Two processes run this program against one Redis: "A" is the process
\* modelled above, "B" a peer with sockets of its own.
Processes == {"A", "B"}
PeerConns == {"r1"}
Other(p) == IF p = "A" THEN "B" ELSE "A"

\* The room set of a group in a process.
LocalMembers(p, g) == IF p = "A" THEN adapterRooms[g] ELSE peerRooms[g]

\* A link of this process goes down, or comes back.
LinkIsUp(r) == link[r].up

\* Mutant: no adapter installed, nothing leaves the process.
ForwardedNowhere(p, q) == "missed"

\* What the adapter's publish makes of a packet for the subscriber of
\* process q: Redis forwards it to a subscriber whose link is up; an ioredis
\* client whose link is down keeps the command in its offline queue.
Forwarded(p, q) ==
  IF p = "A" /\ ~LinkIsUp("Publisher") THEN "unsent"
  ELSE IF q = "A" /\ ~LinkIsUp("Subscriber") THEN "missed"
  ELSE "pending"

\* The record of one io.to(room).emit through the Redis adapter installed by
\* SocketManager: the packet is published with the uid of the process and
\* sent to the local sockets of the room.
Cast(p, g, event, message, sends) ==
  [uid |-> p, room |-> g, event |-> event, payload |-> message,
   members |-> LocalMembers(p, g), local |-> sends,
   inbox |-> [q \in Processes |-> Forwarded(p, q)],
   remote |-> [q \in Processes |-> <<>>],
   remoteMembers |-> [q \in Processes |-> <<>>],
   linksUp |-> LinkIsUp("Publisher") /\ LinkIsUp("Subscriber")]

\* Mutant: a subscriber that does not look at the uid of a packet.
AdapterOnMessageNoFilter(own, uid, members, event, message) ==
  [i \in DOMAIN members |-> Delivery(members[i], event, message)]

\* The adapter's subscriber in process `own` receives a packet published
\* with `uid`: its own packets are ignored, the others go to the local
\* sockets of the room.
AdapterOnMessage(own, uid, members, event, message) ==
  IF uid = own
  THEN <<>>
  ELSE [i \in DOMAIN members |-> Delivery(members[i], event, message)]

\* Room.broadcast in this process, seen with the adapter.
RelayedBroadcast(c, g, event, message) ==
  /\ RoomBroadcast(c, g, event, message)
  /\ casts' = Append(casts, Cast("A", g, event, message,
                                 Broadcast(adapterRooms[g], c, event, message)))
  /\ UNCHANGED <<peerRooms, link, runtimeVars, singletonVars>>

\* A socket of the peer process joins a group there.
PeerJoin(r, g) ==
  /\ peerRooms' = [peerRooms EXCEPT ![g] = SocketJoin(@, r)]
  /\ UNCHANGED <<appVars, casts, link, runtimeVars, singletonVars>>

\* Room.broadcast in the peer process.
PeerBroadcast(r, g, event, message) ==
  /\ casts' = Append(casts, Cast("B", g, event, message,
                                 Broadcast(peerRooms[g], r, event, message)))
  /\ UNCHANGED <<appVars, peerRooms, link, runtimeVars, singletonVars>>

\* The subscriber of process q handles the packet of broadcast k.
SubscriberOnMessage(q, k) ==
  /\ k \in DOMAIN casts
  /\ casts[k].inbox[q] = "pending"
  /\ \A j \in 1..(k - 1) : casts[j].inbox[q] # "pending"
  /\ LET b == casts[k]
         sends == AdapterOnMessage(q, b.uid, LocalMembers(q, b.room),
                                   b.event, b.payload)
     IN  casts' = [casts EXCEPT
                     ![k].inbox[q] = IF b.uid = q THEN "ignored" ELSE "delivered",
                     ![k].remote[q] = sends,
                     ![k].remoteMembers[q] = LocalMembers(q, b.room)]
  /\ UNCHANGED <<appVars, peerRooms, link, runtimeVars, singletonVars>>

\* The link of an adapter client of this process drops. Packets on their
\* way to a subscriber that is gone are not kept for it.
LinkDown(r) ==
  /\ LinkIsUp(r)
  /\ link' = [link EXCEPT ![r] = [up |-> FALSE, times |-> 0, delay |-> 0]]
  /\ casts' = [k \in DOMAIN casts |->
                 [casts[k] EXCEPT
                    !.inbox = [q \in Processes |->
                                 IF r = "Subscriber" /\ q = "A" /\ @[q] = "pending"
                                 THEN "missed" ELSE @[q]],
                    !.linksUp = @ /\ \A q \in Processes :
                                       casts[k].inbox[q] \notin {"pending", "unsent"}]]
  /\ UNCHANGED <<appVars, peerRooms, runtimeVars, singletonVars>>

\* The client reconnects; a publisher sends what its offline queue holds.
LinkUp(r) ==
  /\ ~LinkIsUp(r)
  /\ link' = [link EXCEPT ![r] = Connected]
  /\ casts' = [k \in DOMAIN casts |->
                 [casts[k] EXCEPT
                    !.inbox = [q \in Processes |->
                                 IF r = "Publisher" /\ @[q] = "unsent"
                                 THEN IF q = "A" /\ ~LinkIsUp("Subscriber")
                                      THEN "missed" ELSE "pending"
                                 ELSE @[q]]]]
  /\ UNCHANGED <<appVars, peerRooms, runtimeVars, singletonVars>>

\* ------------------------------------------------------------- reconnection
RetryStep == 50
RetryCeiling == 2000
Min(a, b) == IF a < b THEN a ELSE b

\* Mutant: a retry strategy without the ceiling.
RetryStrategyUncapped(times) == times * RetryStep

\* retryStrategy of the adapter's clients: the delay before attempt `times`.
RetryStrategy(times) == Min(times * RetryStep, RetryCeiling)

\* ioredis fails to reconnect once more, and asks the strategy for the delay
\* before the next attempt; it retries as long as a number comes back.
RetryAttempt(r) ==
  /\ ~LinkIsUp(r)
  /\ link[r].times < MaxAttempts
  /\ link' = [link EXCEPT ![r] = [up |-> FALSE, times |-> @.times + 1,
                                  delay |-> RetryStrategy(@.times + 1)]]
  /\ UNCHANGED <<appVars, peerRooms, casts, runtimeVars, singletonVars>>

\* ------------------------------------------------------------ chat messages
\* The connections that sent join:room for the group and are connected.
JoinedBySend(g) == {d \in Conns : <<d, g>> \in sentJoin /\ conn[d] = "connected"}

\* A client sends chat:message. The socket's listener, if one was attached,
\* emits chat:message on the static bus; the ChatHandler registered there
\* calls ChatStrategy.process(socket, message), which runs up to its await.
SendChatMessage(c, message) ==
  /\ conn[c] = "connected"
  /\ LET trace == StaticEmit(handlers["chat:message"], <<Socket(c), message>>)
         handled == /\ c \in attached
                    /\ \E i \in DOMAIN trace.invoked :
                         trace.invoked[i].handler = "ChatHandler"
         sent == [from |-> c, kind |-> "chat", message |-> message,
                  joined |-> IF message = Null THEN {}
                             ELSE JoinedBySend(message.roomId),
                  task |-> 0, state |-> "ignored", sends |-> <<>>,
                  promise |-> "none", logged |-> FALSE]
     IN  /\ lastBusOp' = IF c \in attached
                         THEN [op |-> "emit", bus |-> "static",
                               event |-> "chat:message",
                               args |-> <<Socket(c), message>>,
                               regs |-> handlers["chat:message"],
                               trace |-> trace,
                               before |-> <<handlers, emitter>>,
                               after |-> <<handlers, emitter>>]
                         ELSE lastBusOp
         /\ IF handled
            THEN /\ ChatStrategyProcess(message)
                 /\ chats' = Append(chats, [sent EXCEPT
                                              !.task = Len(handle) + 1,
                                              !.state = "awaiting",
                                              !.promise = "pending"])
            ELSE /\ chats' = Append(chats, sent)
                 /\ UNCHANGED workerVars
  /\ UNCHANGED <<handlers, emitter, serverVars, roomVars, sentJoin>>

\* A client sends an event of another kind. Neither index attaches a socket
\* listener for it, and socket.io drops an event nobody listens to.
SendOtherKind(c, kind, message) ==
  /\ conn[c] = "connected"
  /\ chats' = Append(chats,
                     [from |-> c, kind |-> kind, message |-> message,
                      joined |-> {}, task |-> 0, state |-> "ignored",
                      sends |-> <<>>, promise |-> "none", logged |-> FALSE])
  /\ UNCHANGED <<busVars, serverVars, roomVars, sentJoin>>

\* Mutant: the broadcast is made whether the task resolved or not.
ChatStrategyOutcomeIgnoresRejection(settled, message) ==
  IF message # Null
  THEN [broadcast |-> TRUE, logged |-> FALSE, promise |-> "fulfilled"]
  ELSE [broadcast |-> FALSE, logged |-> TRUE, promise |-> "fulfilled"]

\* Mutant: process without its try/catch.
ChatStrategyOutcomeNoCatch(settled, message) ==
  IF settled = "resolved" /\ message # Null
  THEN [broadcast |-> TRUE, logged |-> FALSE, promise |-> "fulfilled"]
  ELSE [broadcast |-> FALSE, logged |-> FALSE, promise |-> "rejected"]

\* How ChatStrategy.process ends once the promise it awaits has settled.
\* Its whole body is in try/catch: a rejected task, and the TypeError of
\* message.roomId on a null message, go to the catch block, which logs
\* `ChatStrategy error`; the async function's own promise is fulfilled
\* either way.
ChatStrategyOutcome(settled, message) ==
  IF settled = "resolved" /\ message # Null
  THEN [broadcast |-> TRUE, logged |-> FALSE, promise |-> "fulfilled"]
  ELSE [broadcast |-> FALSE, logged |-> TRUE, promise |-> "fulfilled"]

\* ChatStrategy.process after its await, for the task t whose promise a
\* listener has just settled: on success RoomFactory.getRoom(message.roomId)
\* .broadcast(socket, 'chat:message', message); otherwise nothing is sent.
ChatStrategyResume(t) ==
  IF \E i \in DOMAIN chats : chats[i].task = t /\ chats[i].state = "awaiting"
                               /\ handle'[t].state # "pending"
  THEN LET i == CHOOSE k \in DOMAIN chats : chats[k].task = t
           message == chats[i].message
           end == ChatStrategyOutcome(handle'[t].state, message)
           got == GetRoom(rooms, created, message.roomId)
           sends == Broadcast(adapterRooms[got.room.id], chats[i].from,
                              "chat:message", message)
       IN  IF end.broadcast
           THEN /\ rooms' = got.rooms
                /\ created' = got.created
                /\ lastRoomOp' = [op |-> "broadcast", conn |-> chats[i].from,
                                  id |-> message.roomId, room |-> got.room,
                                  members |-> adapterRooms[message.roomId],
                                  sends |-> sends, event |-> "chat:message",
                                  payload |-> message]
                /\ chats' = [chats EXCEPT ![i].state = "broadcast",
                                          ![i].sends = sends,
                                          ![i].logged = end.logged,
                                          ![i].promise = end.promise]
                /\ UNCHANGED <<busVars, serverVars, adapterRooms, left,
                               sentJoin>>
           ELSE /\ chats' = [chats EXCEPT ![i].state = "failed",
                                          ![i].logged = end.logged,
                                          ![i].promise = end.promise]
                /\ UNCHANGED <<busVars, serverVars, roomVars, sentJoin>>
  ELSE UNCHANGED appVars

\* ------------------------------------------------- the worker's side channel
\* new Redis(config.redis) sets no maxRetriesPerRequest: ioredis's default.
MaxRetriesPerRequest == 20

\* Node 18 and later, with no 'unhandledRejection' listener installed: a
\* promise rejected with nothing attached to it ends the process.
UnhandledRejection == "crashed"

\* The publish the 'message' listener has just made for task t. ioredis
\* sends it if the link of redisPub is up and keeps it in its offline queue
\* otherwise; the promise it returns is neither awaited nor caught.
SidePublish(t) ==
  /\ sidePublishes' =
       IF Len(published'[t]) > Len(published[t])
       THEN Append(sidePublishes,
                   [task |-> t,
                    state |-> IF LinkIsUp("redisPub") THEN "sent" ELSE "queued"])
       ELSE sidePublishes
  /\ UNCHANGED <<node, relayVars, singletonVars>>

\* redisPub fails to reconnect once more. Every maxRetriesPerRequest + 1
\* attempts ioredis rejects the commands waiting in the offline queue.
RedisPubRetry ==
  /\ ~LinkIsUp("redisPub")
  /\ link["redisPub"].times < MaxAttempts
  /\ LET n == link["redisPub"].times + 1
         flush == n % (MaxRetriesPerRequest + 1) = 0
         waiting == {i \in DOMAIN sidePublishes : sidePublishes[i].state = "queued"}
     IN  /\ link' = [link EXCEPT !["redisPub"] =
                       [up |-> FALSE, times |-> n, delay |-> RetryStrategy(n)]]
         /\ sidePublishes' =
              IF flush
              THEN [i \in DOMAIN sidePublishes |->
                      IF i \in waiting
                      THEN [sidePublishes[i] EXCEPT !.state = "rejected"]
                      ELSE sidePublishes[i]]
              ELSE sidePublishes
         /\ node' = IF flush /\ waiting # {} THEN UnhandledRejection ELSE node
  /\ UNCHANGED <<appVars, peerRooms, casts, singletonVars>>

\* redisPub reconnects and sends what its offline queue holds.
RedisPubReady ==
  /\ ~LinkIsUp("redisPub")
  /\ link' = [link EXCEPT !["redisPub"] = Connected]
  /\ sidePublishes' = [i \in DOMAIN sidePublishes |->
                         IF sidePublishes[i].state = "queued"
                         THEN [sidePublishes[i] EXCEPT !.state = "sent"]
                         ELSE sidePublishes[i]]
  /\ UNCHANGED <<appVars, peerRooms, casts, node, singletonVars>>

\* ----------------------------------------------------------- specifications
WorkerStep(t) == WorkerThreadRun(t) \/ WorkerFault(t) \/ WorkerKilled(t)
Deliver(t) == OnMessage(t) \/ OnError(t) \/ OnExit(t)

\* Any callers, any interleaving of up to MaxTasks dispatches.
WorkerNext ==
  \/ /\ Len(handle) < MaxTasks
     /\ \E id \in CallerIds, m \in Messages, s \in StrategyNames :
          ProcessMessage(id, m, s)
     /\ UNCHANGED <<appVars, extVars>>
  \/ /\ Len(handle) < MaxTasks
     /\ \E id \in CallerIds, m \in Messages \ {Null} :
          Process(id, m, CustomWorkerStrategy)
     /\ UNCHANGED <<appVars, extVars>>
  \/ /\ Len(handle) < MaxTasks
     /\ \E m \in Messages : ChatStrategyProcess(m)
     /\ UNCHANGED <<appVars, extVars>>
  \/ \E t \in Tasks : WorkerThreadRun(t) /\ UNCHANGED <<appVars, extVars>>
  \/ \E t \in Tasks : WorkerFault(t) /\ UNCHANGED <<appVars, extVars>>
  \/ \E t \in Tasks : WorkerKilled(t) /\ UNCHANGED <<appVars, extVars>>
  \/ \E t \in Tasks : OnMessage(t) /\ UNCHANGED <<appVars, extVars>>
  \/ \E t \in Tasks : OnError(t) /\ UNCHANGED <<appVars, extVars>>
  \/ \E t \in Tasks : OnExit(t) /\ UNCHANGED <<appVars, extVars>>

WorkerSpec == Init /\ [][WorkerNext]_vars

\* Liveness: the dispatches of one caller (one task id), every strategy name
\* and message, every worker behaviour. Node schedules every worker thread
\* and delivers every event it emitted.
WorkerFairNext ==
  \/ /\ Len(handle) < MaxTasks
     /\ \E m \in Messages, s \in StrategyNames :
          ProcessMessage(<<"caller", "task-123">>, m, s)
     /\ UNCHANGED <<appVars, extVars>>
  \/ /\ Len(handle) < MaxTasks
     /\ \E m \in Messages \ {Null} :
          Process(<<"caller", "task-123">>, m, CustomWorkerStrategy)
     /\ UNCHANGED <<appVars, extVars>>
  \/ \E t \in Tasks : WorkerThreadRun(t) /\ UNCHANGED <<appVars, extVars>>
  \/ \E t \in Tasks : WorkerFault(t) /\ UNCHANGED <<appVars, extVars>>
  \/ \E t \in Tasks : WorkerKilled(t) /\ UNCHANGED <<appVars, extVars>>
  \/ \E t \in Tasks : OnMessage(t) /\ UNCHANGED <<appVars, extVars>>
  \/ \E t \in Tasks : OnError(t) /\ UNCHANGED <<appVars, extVars>>
  \/ \E t \in Tasks : OnExit(t) /\ UNCHANGED <<appVars, extVars>>

WorkerFairSpec ==
  /\ Init
  /\ [][WorkerFairNext]_vars
  /\ \A t \in 1..MaxTasks :
       /\ WF_vars(WorkerStep(t) /\ UNCHANGED <<appVars, extVars>>)
       /\ WF_vars(Deliver(t) /\ UNCHANGED <<appVars, extVars>>)

\* The same, observed against a clock.
TimedNext == WorkerNext \/ (Tick /\ UNCHANGED <<appVars, extVars>>)
TimedSpec == Init /\ [][TimedNext]_vars

\* The saturation scenario: Submissions chat messages arrive back to back.
SaturationNext ==
  \/ /\ Len(handle) < Submissions
     /\ \E m \in Messages \ {Null} : ChatStrategyProcess(m)
     /\ UNCHANGED <<appVars, extVars>>
  \/ \E t \in Tasks : WorkerThreadRun(t) /\ UNCHANGED <<appVars, extVars>>
  \/ \E t \in Tasks : WorkerFault(t) /\ UNCHANGED <<appVars, extVars>>
  \/ \E t \in Tasks : WorkerKilled(t) /\ UNCHANGED <<appVars, extVars>>
  \/ \E t \in Tasks : OnMessage(t) /\ UNCHANGED <<appVars, extVars>>
  \/ \E t \in Tasks : OnError(t) /\ UNCHANGED <<appVars, extVars>>
  \/ \E t \in Tasks : OnExit(t) /\ UNCHANGED <<appVars, extVars>>

SaturationSpec == Init /\ [][SaturationNext]_vars

\* The two buses under any callers: registrations, removals and emits.
BusFrame == UNCHANGED <<workerVars, serverVars, roomVars, chatVars, extVars>>
BusNext ==
  \/ /\ Registrations < MaxHandlers
     /\ \E e \in EventNames, h \in HandlerIds : EventEmitterStaticOn(e, h)
     /\ BusFrame
  \/ /\ \E e \in EventNames : \E args \in EmitArgs(e) :
          EventEmitterStaticEmit(e, args)
     /\ BusFrame
  \/ /\ Registrations < MaxHandlers
     /\ \E e \in EventNames, h \in HandlerIds : EventEmitterOn(e, h)
     /\ BusFrame
  \/ /\ \E e \in EventNames : \E args \in EmitArgs(e) :
          EventEmitterEmit(e, args)
     /\ BusFrame
  \/ /\ \E e \in EventNames, h \in HandlerIds : EventEmitterOff(e, h)
     /\ BusFrame

BusSpec == Init /\ [][BusNext]_vars


\* Connections, joins and broadcasts under either entry point.
RoomNext ==
  \/ IndexStatic /\ UNCHANGED <<workerVars, extVars>>
  \/ IndexInstance /\ UNCHANGED <<workerVars, extVars>>
  \/ \E c \in Conns : TransportConnect(c) /\ UNCHANGED <<workerVars, extVars>>
  \/ \E c \in Conns : TransportDisconnect(c) /\ UNCHANGED <<workerVars, extVars>>
  \/ \E g \in GroupIds : RoomFactoryGetRoom(g) /\ UNCHANGED <<workerVars, extVars>>
  \/ \E c \in Conns, g \in GroupIds : SendJoinRoom(c, g) /\ UNCHANGED <<workerVars, extVars>>
  \/ \E c \in Conns, g \in GroupIds :
       RoomBroadcast(c, g, "chat:message", ChatPayload(g, c))
         /\ UNCHANGED <<workerVars, extVars>>
  \/ \E c \in Conns, g \in GroupIds : RoomLeave(c, g) /\ UNCHANGED <<workerVars, extVars>>

RoomSpec == Init /\ [][RoomNext]_vars

\* Chat end to end: an entry point, connections, join:room and chat:message
\* from the clients, the worker of each message and its listeners.
ChatNext ==
  \/ IndexStatic /\ UNCHANGED <<workerVars, extVars>>
  \/ IndexInstance /\ UNCHANGED <<workerVars, extVars>>
  \/ \E c \in Conns : TransportConnect(c) /\ UNCHANGED <<workerVars, extVars>>
  \/ \E c \in Conns, g \in GroupIds : SendJoinRoom(c, g) /\ UNCHANGED <<workerVars, extVars>>
  \/ /\ Len(chats) < MaxTasks
     /\ \E c \in Conns : SendChatMessage(c, ChatPayload("lobby", c))
     /\ UNCHANGED extVars
  \/ \E t \in Tasks : WorkerThreadRun(t) /\ UNCHANGED <<appVars, extVars>>
  \/ \E t \in Tasks : WorkerFault(t) /\ UNCHANGED <<appVars, extVars>>
  \/ \E t \in Tasks : WorkerKilled(t) /\ UNCHANGED <<appVars, extVars>>
  \/ \E t \in Tasks : OnMessage(t) /\ ChatStrategyResume(t) /\ UNCHANGED extVars
  \/ \E t \in Tasks : OnError(t) /\ ChatStrategyResume(t) /\ UNCHANGED extVars
  \/ \E t \in Tasks : OnExit(t) /\ ChatStrategyResume(t) /\ UNCHANGED extVars

ChatSpec == Init /\ [][ChatNext]_vars

\* Two processes on one Redis: joins and broadcasts on both, the adapter's
\* subscribers, and the links of this process going down and up.
RelayFrame == UNCHANGED <<workerVars, relayVars, runtimeVars, singletonVars>>
RelayNext ==
  \/ IndexStatic /\ RelayFrame
  \/ \E c \in Conns : TransportConnect(c) /\ RelayFrame
  \/ \E c \in Conns : SendJoinRoom(c, "lobby") /\ RelayFrame
  \/ \E r \in PeerConns : PeerJoin(r, "lobby") /\ UNCHANGED workerVars
  \/ /\ Len(casts) < MaxCasts
     /\ \E c \in Conns :
          RelayedBroadcast(c, "lobby", "chat:message", ChatPayload("lobby", c))
     /\ UNCHANGED workerVars
  \/ /\ Len(casts) < MaxCasts
     /\ \E r \in PeerConns :
          PeerBroadcast(r, "lobby", "chat:message", ChatPayload("lobby", r))
     /\ UNCHANGED workerVars
  \/ \E q \in Processes, k \in DOMAIN casts :
       SubscriberOnMessage(q, k) /\ UNCHANGED workerVars
  \/ \E r \in {"Publisher", "Subscriber"} : LinkDown(r) /\ UNCHANGED workerVars
  \/ \E r \in {"Publisher", "Subscriber"} : LinkUp(r) /\ UNCHANGED workerVars

RelaySpec == Init /\ [][RelayNext]_vars

\* The same with the links of this process up throughout. Node's event loop
\* runs the subscriber's message listener for every packet Redis pushes.
RelayUpNext ==
  \/ IndexStatic /\ RelayFrame
  \/ \E c \in Conns : TransportConnect(c) /\ RelayFrame
  \/ \E c \in Conns : SendJoinRoom(c, "lobby") /\ RelayFrame
  \/ \E r \in PeerConns : PeerJoin(r, "lobby") /\ UNCHANGED workerVars
  \/ /\ Len(casts) < MaxCasts
     /\ \E c \in Conns :
          RelayedBroadcast(c, "lobby", "chat:message", ChatPayload("lobby", c))
     /\ UNCHANGED workerVars
  \/ /\ Len(casts) < MaxCasts
     /\ \E r \in PeerConns :
          PeerBroadcast(r, "lobby", "chat:message", ChatPayload("lobby", r))
     /\ UNCHANGED workerVars
  \/ \E q \in Processes, k \in DOMAIN casts :
       SubscriberOnMessage(q, k) /\ UNCHANGED workerVars

RelayUpSpec ==
  /\ Init
  /\ [][RelayUpNext]_vars
  /\ WF_vars(\E q \in Processes, k \in DOMAIN casts :
               SubscriberOnMessage(q, k) /\ UNCHANGED workerVars)

\* The adapter's two clients losing their link, retrying and reconnecting.
AdapterClients == {"Publisher", "Subscriber"}
RetryNext ==
  \/ \E r \in AdapterClients : LinkDown(r) /\ UNCHANGED workerVars
  \/ \E r \in AdapterClients : RetryAttempt(r) /\ UNCHANGED workerVars
  \/ \E r \in AdapterClients : LinkUp(r) /\ UNCHANGED workerVars

RetrySpec == Init /\ [][RetryNext]_vars

\* The chat path of one process while its Redis links go down and come
\* back. A process that has ended takes no further step.
OutageNext ==
  \/ node = "running" /\ IndexStatic /\ UNCHANGED <<workerVars, extVars>>
  \/ /\ node = "running"
     /\ \E c \in Conns : TransportConnect(c) /\ UNCHANGED <<workerVars, extVars>>
  \/ /\ node = "running"
     /\ \E c \in Conns : SendJoinRoom(c, "lobby") /\ UNCHANGED <<workerVars, extVars>>
  \/ /\ node = "running"
     /\ Len(chats) < MaxTasks
     /\ SendChatMessage("c1", ChatPayload("lobby", "c1"))
     /\ UNCHANGED extVars
  \/ /\ node = "running"
     /\ \E t \in Tasks : WorkerThreadRun(t) /\ UNCHANGED <<appVars, extVars>>
  \/ /\ node = "running"
     /\ \E t \in Tasks : OnMessage(t) /\ ChatStrategyResume(t) /\ SidePublish(t)
  \/ /\ node = "running"
     /\ \E r \in {"redisPub", "Publisher"} : LinkDown(r) /\ UNCHANGED workerVars
  \/ /\ node = "running"
     /\ LinkUp("Publisher") /\ UNCHANGED workerVars
  \/ node = "running" /\ RedisPubRetry /\ UNCHANGED workerVars
  \/ node = "running" /\ RedisPubReady /\ UNCHANGED workerVars

OutageSpec == Init /\ [][OutageNext]_vars

\* The chat path of one sender among the connections, with well-formed and
\* null messages, events of another kind, and every way a worker can end.
OtherKinds == {"poll"}
StrategyNext ==
  \/ IndexStatic /\ UNCHANGED <<workerVars, extVars>>
  \/ \E c \in Conns : TransportConnect(c) /\ UNCHANGED <<workerVars, extVars>>
  \/ \E c \in Conns : SendJoinRoom(c, "lobby") /\ UNCHANGED <<workerVars, extVars>>
  \/ /\ Len(chats) < MaxTasks
     /\ \E m \in {ChatPayload("lobby", "c1"), Null} : SendChatMessage("c1", m)
     /\ UNCHANGED extVars
  \/ /\ Len(chats) < MaxTasks
     /\ \E k \in OtherKinds : SendOtherKind("c1", k, ChatPayload("lobby", "c1"))
     /\ UNCHANGED <<workerVars, extVars>>
  \/ \E t \in Tasks : WorkerThreadRun(t) /\ UNCHANGED <<appVars, extVars>>
  \/ \E t \in Tasks : WorkerFault(t) /\ UNCHANGED <<appVars, extVars>>
  \/ \E t \in Tasks : WorkerKilled(t) /\ UNCHANGED <<appVars, extVars>>
  \/ \E t \in Tasks : OnMessage(t) /\ ChatStrategyResume(t) /\ UNCHANGED extVars
  \/ \E t \in Tasks : OnError(t) /\ ChatStrategyResume(t) /\ UNCHANGED extVars
  \/ \E t \in Tasks : OnExit(t) /\ ChatStrategyResume(t) /\ UNCHANGED extVars

StrategySpec == Init /\ [][StrategyNext]_vars

\* The getInstance calls of the program in any order: the two indexes,
\* the Room constructor inside RoomFactory.getRoom (called directly or by a
\* join:room listener), and direct calls.
SingletonNext ==
  \/ IndexStatic /\ SingletonCalls(TRUE, FALSE) /\ UNCHANGED workerVars
  \/ IndexInstance /\ SingletonCalls(TRUE, TRUE) /\ UNCHANGED workerVars
  \/ \E c \in Conns : TransportConnect(c) /\ UNCHANGED <<workerVars, extVars>>
  \/ \E g \in GroupIds :
       RoomFactoryGetRoom(g) /\ SingletonCalls(created' # created, FALSE)
         /\ UNCHANGED workerVars
  \/ \E c \in Conns, g \in GroupIds :
       SendJoinRoom(c, g) /\ SingletonCalls(created' # created, FALSE)
         /\ UNCHANGED workerVars
  \/ SingletonCalls(TRUE, FALSE) /\ UNCHANGED <<workerVars, appVars>>
  \/ SingletonCalls(FALSE, TRUE) /\ UNCHANGED <<workerVars, appVars>>

SingletonSpec == Init /\ [][SingletonNext]_vars

\* WorkerBase.process with a strategy added as GUIDE.md describes, whose
\* process() returns or throws.
ReportNext ==
  \/ /\ Len(handle) < MaxTasks
     /\ \E id \in CallerIds, m \in Messages \ {Null} :
          Process(id, m, CustomWorkerStrategy)
     /\ UNCHANGED <<appVars, extVars>>
  \/ \E t \in Tasks, out \in CustomOutcomes :
       CustomStrategyRun(t, out) /\ UNCHANGED <<appVars, extVars>>
  \/ \E t \in Tasks : OnMessage(t) /\ UNCHANGED <<appVars, extVars>>
  \/ \E t \in Tasks : OnExit(t) /\ UNCHANGED <<appVars, extVars>>

ReportSpec == Init /\ [][ReportNext]_vars

\* Connections opening and closing around the chat path of one group:
\* joins and chat messages of every connection, each message's worker and
\* its listeners.
SessionNext ==
  \/ IndexStatic /\ UNCHANGED <<workerVars, extVars>>
  \/ IndexInstance /\ UNCHANGED <<workerVars, extVars>>
  \/ \E c \in Conns : TransportConnect(c) /\ UNCHANGED <<workerVars, extVars>>
  \/ \E c \in Conns : TransportDisconnect(c) /\ UNCHANGED <<workerVars, extVars>>
  \/ \E c \in Conns : SendJoinRoom(c, "lobby") /\ UNCHANGED <<workerVars, extVars>>
  \/ /\ Len(chats) < MaxTasks
     /\ \E c \in Conns : SendChatMessage(c, ChatPayload("lobby", c))
     /\ UNCHANGED extVars
  \/ \E t \in Tasks : WorkerThreadRun(t) /\ UNCHANGED <<appVars, extVars>>
  \/ \E t \in Tasks : OnMessage(t) /\ ChatStrategyResume(t) /\ UNCHANGED extVars
  \/ \E t \in Tasks : OnExit(t) /\ ChatStrategyResume(t) /\ UNCHANGED extVars

SessionSpec == Init /\ [][SessionNext]_vars

\* The registry of rooms under everything that reaches getRoom: the
\* join:room listener of one connection and the continuations of another
\* connection's chat messages, for either group, the joiner closing in
\* between.
RegistryNext ==
  \/ IndexStatic /\ UNCHANGED <<workerVars, extVars>>
  \/ IndexInstance /\ UNCHANGED <<workerVars, extVars>>
  \/ \E c \in Conns : TransportConnect(c) /\ UNCHANGED <<workerVars, extVars>>
  \/ TransportDisconnect("c2") /\ UNCHANGED <<workerVars, extVars>>
  \/ \E g \in GroupIds : SendJoinRoom("c2", g) /\ UNCHANGED <<workerVars, extVars>>
  \/ /\ Len(chats) < MaxTasks
     /\ \E g \in GroupIds : SendChatMessage("c1", ChatPayload(g, "c1"))
     /\ UNCHANGED extVars
  \/ \E t \in Tasks : WorkerThreadRun(t) /\ UNCHANGED <<appVars, extVars>>
  \/ \E t \in Tasks : WorkerFault(t) /\ UNCHANGED <<appVars, extVars>>
  \/ \E t \in Tasks : OnMessage(t) /\ ChatStrategyResume(t) /\ UNCHANGED extVars
  \/ \E t \in Tasks : OnError(t) /\ ChatStrategyResume(t) /\ UNCHANGED extVars
  \/ \E t \in Tasks : OnExit(t) /\ ChatStrategyResume(t) /\ UNCHANGED extVars

RegistrySpec == Init /\ [][RegistryNext]_vars

\* ------------------------------------------------------------------ claims
Settled(t) == t \in Tasks /\ handle[t].state \in {"resolved", "rejected"}
InFlight(t) == t \in Tasks /\ handle[t].state = "pending"

\* C1: once a handle has been resolved or rejected, no later step (a second
\* message, an 'error' followed by a non-zero 'exit', a late report) changes
\* its state, its value or the event that settled it.
C1_SettledAtMostOnce ==
  [][\A t \in Tasks :
       handle[t].state # "pending"
         => /\ handle'[t] = handle[t]
            /\ settledBy'[t] = settledBy[t]]_vars

\* C1 witness: 'error' and then a non-zero 'exit' both called reject on one
\* handle, which kept the outcome of the first.
C1_Witness ==
  \E t \in Tasks :
    /\ settleCalls[t] >= 2
    /\ handle[t].state = "rejected"
    /\ settledBy[t].type = "error"
    /\ port[t] = <<>>

CrashRejected(t) ==
  /\ t \in Tasks
  /\ handle[t].state = "rejected"
  /\ settledBy[t].type \in {"error", "exit"}
  /\ settledBy[t].from = t

C3_TimeoutRejects ==
  \A t \in Tasks :
    waited[t] >= MaxWait
      => handle[t] = [state |-> "rejected",
                      value |-> Error(Str("TaskTimeout", ""))]

\* C4: a resolved handle carries the result value of the worker's message.
C4_ResolvesWithWorkerResult ==
  \A t \in Tasks :
    handle[t].state = "resolved"
      => /\ posted[t] # <<>>
         /\ handle[t].value = posted[t][1].result

\* C5: a handle settled by a worker event was settled by an event of its own
\* task's worker, and a result message that settled it carries its task id.
C5_CorrelatedByTaskId ==
  \A t \in Tasks :
    settledBy[t].type \in {"message", "error", "exit"}
      => /\ settledBy[t].from = t
         /\ settledBy[t].type = "message"
              => /\ settledBy[t].data.taskId = call[t].taskId
                 /\ settledBy[t].data = posted[t][1]

\* C5 witness: two tasks with different ids in flight at once, the later
\* one settled by its result while the earlier one's result is still unread.
C5_Witness ==
  \E t1, t2 \in Tasks :
    /\ t1 < t2
    /\ call[t1].taskId # call[t2].taskId
    /\ InFlight(t1) /\ worker[t1] = "completed"
    /\ handle[t2].state = "resolved" /\ settledBy[t2].type = "message"

UnregisteredCall(t) ==
  /\ t \in Tasks
  /\ call[t].via \in {"processMessage", "ChatStrategy"}
  /\ call[t].strategy \notin DOMAIN strategies

\* C6: processMessage with an unregistered strategy name returns a promise
\* (no synchronous throw) that is rejected with the unknown-strategy error,
\* and starts no worker.
C6_UnknownStrategyRejectsHandle ==
  \A t \in Tasks :
    UnregisteredCall(t)
      => /\ returned[t] = "promise"
         /\ handle[t] = [state |-> "rejected",
                         value |-> Error(Str("Unknown strategy: ",
                                             call[t].strategy))]
         /\ worker[t] = "none"
         /\ workerData[t] = NoData
         /\ posted[t] = <<>> /\ port[t] = <<>> /\ published[t] = <<>>

\* C6 witness: a call with 'unknown-kind' next to a call that runs a worker.
C6_Witness ==
  /\ \E t \in Tasks : UnregisteredCall(t) /\ call[t].strategy = "unknown-kind"
  /\ \E t \in Tasks : worker[t] = "running"

Running == {t \in Tasks : worker[t] = "running"}

\* C7: never more than PoolSize workers run at once, and a submission made
\* while PoolSize + QueueBound earlier tasks are all still running fails with
\* DispatcherSaturated without a worker.
C7_PoolBounded ==
  /\ Cardinality(Running) <= PoolSize
  /\ \A t \in Tasks :
       (t > PoolSize + QueueBound /\ \A u \in 1..(t - 1) : worker[u] = "running")
         => /\ handle[t] = [state |-> "rejected",
                            value |-> Error(Str("DispatcherSaturated", ""))]
            /\ worker[t] = "none"

ReportedSuccess(t) == posted[t] # <<>> /\ posted[t][1].error = Undefined
MessagesRead(t) == \A i \in DOMAIN port[t] : port[t][i].type # "message"

C9_InFlightIdsDistinct ==
  \A t1, t2 \in Tasks :
    (t1 # t2 /\ InFlight(t1) /\ InFlight(t2))
      => call[t1].taskId # call[t2].taskId

\* C10: a started worker holds exactly the task of its call, posts at most
\* one message, and once its script has run has posted exactly one, with the
\* same task id and exactly one of result and error (an error when the
\* strategy is unknown to the worker or threw).
C10_OneTaskOneMessage ==
  \A t \in Tasks :
    worker[t] # "none"
      => /\ workerData[t] = [taskId |-> call[t].taskId,
                             message |-> call[t].message,
                             strategy |-> call[t].strategy]
         /\ Len(posted[t]) <= 1
         /\ worker[t] = "completed"
              => /\ Len(posted[t]) = 1
                 /\ posted[t][1].taskId = workerData[t].taskId
                 /\ (posted[t][1].result = Undefined)
                      # (posted[t][1].error = Undefined)
                 /\ call[t].strategy \notin WorkerThreadStrategies
                      => posted[t][1].error # Undefined
                 /\ (call[t].strategy = "analytics" /\ call[t].message = Null)
                      => posted[t][1].error # Undefined
                 /\ call[t].strategy = "chat"
                      => posted[t][1].result # Undefined

\* C10 witness: one worker that did not know its strategy and one whose
\* strategy threw, each after posting its single error message.
C10_Witness ==
  /\ \E t \in Tasks : /\ worker[t] = "completed"
                      /\ call[t].strategy = "custom"
                      /\ Len(posted[t]) = 1
  /\ \E t \in Tasks : /\ worker[t] = "completed"
                      /\ call[t].strategy = "analytics" /\ call[t].message = Null
                      /\ Len(posted[t]) = 1

\* ---------------------------------------------------- claims: the event bus
HandlersOf(list) == [i \in DOMAIN list |-> list[i].fn]
InvokedBy(trace) == [i \in DOMAIN trace.invoked |-> trace.invoked[i].handler]
Occurrences(seq, x) == Cardinality({i \in DOMAIN seq : seq[i] = x})
Emitted == lastBusOp.op = "emit"
EmittedOn(bus) == Emitted /\ lastBusOp.bus = bus

\* C11: on whichever bus an event is emitted, a handler that throws stops
\* neither the handlers registered after it nor the caller: every registered
\* handler has run and emit returned normally.
C11_ThrowingHandlerIsolated ==
  Emitted => /\ ~lastBusOp.trace.threw
             /\ InvokedBy(lastBusOp.trace) = HandlersOf(lastBusOp.regs)

\* C12: an emit on the singleton bus has, when it returns, invoked every
\* handler registered for the event, once per registration, in registration
\* order, each with the emitted arguments in the same positions.
C12_EmitInRegistrationOrder ==
  EmittedOn("instance")
    => lastBusOp.trace.invoked
         = [i \in DOMAIN lastBusOp.regs |->
              Invocation(lastBusOp.regs[i].fn, lastBusOp.args)]

\* C13: registration does not de-duplicate: on either bus a handler that was
\* registered k times for an event is invoked exactly k times by one emit.
C13_InvokedOncePerRegistration ==
  Emitted => \A h \in HandlerIds :
               Occurrences(InvokedBy(lastBusOp.trace), h)
                 = Occurrences(HandlersOf(lastBusOp.regs), h)

\* The registrations the contract of off leaves: the first one of the handler
\* is gone, the others keep their order.
RECURSIVE RemoveFirstMatch(_, _)
RemoveFirstMatch(list, h) ==
  IF list = <<>> THEN <<>>
  ELSE IF Head(list).fn = h THEN Tail(list)
  ELSE <<Head(list)>> \o RemoveFirstMatch(Tail(list), h)

\* C14: off(event, handler) removes the first registration of that handler
\* for the event and nothing else, so a handler registered once and then
\* unregistered is no longer registered.
C14_OffRemovesFirstMatch ==
  lastBusOp.op = "off"
    => lastBusOp.after = RemoveFirstMatch(lastBusOp.before, lastBusOp.handler)

\* C15: an emit for an event that has no handler, on either bus, runs no
\* handler, raises and logs no error, and leaves every registration as it was.
C15_EmitWithoutHandlersIsNoOp ==
  (Emitted /\ lastBusOp.regs = <<>>)
    => /\ lastBusOp.trace = NoTrace
       /\ lastBusOp.after = lastBusOp.before

\* -------------------------------------------------------- claims: the rooms
RoomCalls == {"getRoom", "join", "broadcast"}
Targets(sends) == [i \in DOMAIN sends |-> sends[i].to]
IsMember(c, members) == \E i \in DOMAIN members : members[i] = c

\* C16: every call of getRoom for a group id returns the Room object that the
\* first call for that id created, whatever other ids are asked for in
\* between: once the map holds a Room for an id it never holds another one,
\* and each call returns the Room the map holds.
C16_GetRoomReturnsSameInstance ==
  [][/\ \A g \in GroupIds : rooms[g] # NoRoom => rooms'[g] = rooms[g]
     /\ lastRoomOp'.op \in RoomCalls
          => lastRoomOp'.room = rooms'[lastRoomOp'.id]]_vars

C16_Witness ==
  /\ lastRoomOp.op = "getRoom"
  /\ lastRoomOp.id = "lobby"
  /\ lastRoomOp.before # NoRoom
  /\ rooms["lobby"].inst = 1
  /\ rooms["games"].inst = 2

\* C17: one broadcast to a group sends the event, with the payload it was
\* given, exactly once to every socket that is in the group's room and to no
\* other socket; the calling socket gets it too when it is in the room.
C17_BroadcastReachesExactlyMembers ==
  lastRoomOp.op = "broadcast"
    => /\ \A c \in Conns :
            Occurrences(Targets(lastRoomOp.sends), c)
              = IF IsMember(c, lastRoomOp.members) THEN 1 ELSE 0
       /\ \A i \in DOMAIN lastRoomOp.sends :
            /\ lastRoomOp.sends[i].event = lastRoomOp.event
            /\ lastRoomOp.sends[i].payload = lastRoomOp.payload

C17_Witness ==
  /\ lastRoomOp.op = "broadcast"
  /\ Len(lastRoomOp.members) = 2
  /\ IsMember(lastRoomOp.conn, lastRoomOp.members)
  /\ Len(adapterRooms["games"]) = 1

\* C18: leave takes the connection out of the group and is not an error even
\* when the connection is not in the group; a broadcast sends nothing to a
\* connection whose latest call for that group was leave.
C18_LeftConnectionReceivesNothing ==
  /\ lastRoomOp.op = "leave"
       => /\ ~lastRoomOp.threw
          /\ lastRoomOp.after = Without(lastRoomOp.before, lastRoomOp.conn)
  /\ lastRoomOp.op = "broadcast"
       => \A i \in DOMAIN lastRoomOp.sends :
            <<lastRoomOp.sends[i].to, lastRoomOp.id>> \notin left

\* C19: join is idempotent: after a join the socket is in the room once, a
\* join by a socket that is already in the room leaves the room as it was,
\* and a broadcast sends to no socket twice.
C19_JoinIdempotent ==
  /\ lastRoomOp.op = "join"
       => /\ Occurrences(lastRoomOp.after, lastRoomOp.conn) = 1
          /\ IsMember(lastRoomOp.conn, lastRoomOp.before)
               => lastRoomOp.after = lastRoomOp.before
  /\ lastRoomOp.op = "broadcast"
       => \A c \in Conns : Occurrences(Targets(lastRoomOp.sends), c) <= 1

C19_Witness ==
  /\ lastRoomOp.op = "join"
  /\ IsMember(lastRoomOp.conn, lastRoomOp.before)
  /\ Len(lastRoomOp.after) = 2

\* ----------------------------------------------------- claims: chat end to end
\* C20: once a chat:message sent by a connection that had sent join:room for
\* its group has been dealt with, every connection that had sent join:room
\* for that group, the sender included, has been sent chat:message with the
\* payload that was sent.
C20_ChatReachesEveryJoinedConnection ==
  \A i \in DOMAIN chats :
    (chats[i].from \in chats[i].joined /\ chats[i].state # "awaiting")
      => \A d \in chats[i].joined :
           \E j \in DOMAIN chats[i].sends :
             chats[i].sends[j] = Delivery(d, "chat:message", chats[i].message)

\* --------------------------------------------------------- claims: the relay
\* Everything a socket of process p was sent for broadcast k.
SentIn(k, p) ==
  IF casts[k].uid = p THEN casts[k].local \o casts[k].remote[p]
  ELSE casts[k].remote[p]

\* C21: a broadcast made in a process and received back by that process's
\* own subscriber is not sent to its local sockets again: whatever the relay
\* has done so far, every socket that was in the room when the broadcast was
\* made has been sent it exactly once and no other local socket has.
C21_OwnBroadcastNotRedelivered ==
  \A k \in DOMAIN casts :
    LET sent == Targets(SentIn(k, casts[k].uid))
    IN  \A c \in Conns \cup PeerConns :
          Occurrences(sent, c)
            = IF IsMember(c, casts[k].members) THEN 1 ELSE 0

C21_Witness ==
  \E k \in DOMAIN casts :
    /\ casts[k].uid = "A"
    /\ casts[k].inbox["A"] = "ignored"
    /\ Len(casts[k].members) = 2

\* C22: with the relay links up, a broadcast made in one process is delivered
\* in the other process: its packet is eventually handled there, and when it
\* is, every socket then in the group's room of that process is sent the event
\* with the same payload once, and no other socket is.
C22_BroadcastReachesOtherProcess ==
  /\ [](\A k \in DOMAIN casts :
          LET q == Other(casts[k].uid)
          IN  casts[k].inbox[q] = "delivered" =>
                /\ \A c \in Conns \cup PeerConns :
                     Occurrences(Targets(casts[k].remote[q]), c)
                       = IF IsMember(c, casts[k].remoteMembers[q])
                         THEN 1 ELSE 0
                /\ \A i \in DOMAIN casts[k].remote[q] :
                     /\ casts[k].remote[q][i].event = casts[k].event
                     /\ casts[k].remote[q][i].payload = casts[k].payload)
  /\ \A k \in 1..MaxCasts :
       (k \in DOMAIN casts)
         ~> (k \in DOMAIN casts /\ casts[k].inbox[Other(casts[k].uid)] = "delivered")

C22_Witness ==
  \E k \in DOMAIN casts :
    /\ casts[k].uid = "B"
    /\ casts[k].inbox["A"] = "delivered"
    /\ Len(casts[k].remote["A"]) = 2

\* C23 as stated: after a link failure the delay before each reconnection
\* attempt grows exponentially (it doubles from one attempt to the next)
\* until it reaches a fixed ceiling, and a delay is returned for every
\* attempt.
C23_ExponentialBackoff ==
  \A r \in AdapterClients :
    link[r].times >= 1 =>
      /\ link[r].delay = Min(RetryStep * 2 ^ (link[r].times - 1), RetryCeiling)
      /\ link[r].delay > 0

\* C23, amended: the delay before attempt n is 50 ms times n, a linear
\* growth, and never more than the ceiling of 2000 ms; a positive delay is
\* returned for every attempt, so retrying never stops.
C23_LinearBackoffWithCeiling ==
  \A r \in AdapterClients :
    link[r].times >= 1 =>
      /\ link[r].delay > 0
      /\ link[r].delay <= RetryCeiling
      /\ link[r].delay < RetryCeiling => link[r].delay = RetryStep * link[r].times
      /\ link[r].delay = RetryCeiling => RetryStep * link[r].times >= RetryCeiling

C23_Witness ==
  \E r \in AdapterClients :
    /\ ~link[r].up
    /\ link[r].times > 40
    /\ link[r].delay = RetryCeiling

\* --------------------------------------------------- claims: a relay outage
\* C24: while a relay link is down the process does not crash; a broadcast
\* is still sent once to every local socket in the room; and a task that
\* succeeded has its handle resolved whatever becomes of the publish on the
\* side channel.
C24_OutageKeepsProcessUp ==
  /\ node = "running"
  /\ \A i \in DOMAIN sidePublishes :
       handle[sidePublishes[i].task].state = "resolved"
  /\ lastRoomOp.op = "broadcast" =>
       \A c \in Conns :
         Occurrences(Targets(lastRoomOp.sends), c)
           = IF IsMember(c, lastRoomOp.members) THEN 1 ELSE 0

\* ------------------------------------------------ claims: the chat strategy
\* C25: a message of a kind no strategy handles is not dropped silently: the
\* connection that sent it is sent the event `{kind}:error`; and a task that
\* failed is reported to the component that awaited it.
C25_UnknownKindAnswered ==
  \A i \in DOMAIN chats :
    /\ chats[i].kind \in OtherKinds =>
         \E j \in DOMAIN chats[i].sends :
           /\ chats[i].sends[j].to = chats[i].from
           /\ chats[i].sends[j].event = chats[i].kind \o ":error"
    /\ (chats[i].task > 0 /\ handle[chats[i].task].state = "rejected") =>
         chats[i].state \in {"awaiting", "failed"}

\* C28: for one inbound chat message ChatStrategy.process broadcasts at most
\* once, and only after the worker task of that message resolved; when the
\* task was rejected nothing is ever broadcast for the message. A message
\* whose processing has ended is not touched again.
C28_BroadcastOnlyAfterResolve ==
  /\ [](\A i \in DOMAIN chats :
          /\ chats[i].state = "broadcast" =>
               /\ chats[i].task > 0
               /\ handle[chats[i].task].state = "resolved"
          /\ chats[i].state # "broadcast" => chats[i].sends = <<>>
          /\ (chats[i].task > 0 /\ handle[chats[i].task].state = "rejected") =>
               chats[i].sends = <<>>)
  /\ [][\A i \in DOMAIN chats :
          chats[i].state \in {"broadcast", "failed"} => chats'[i] = chats[i]]_vars

C28_Witness ==
  \E i, j \in DOMAIN chats :
    /\ chats[i].state = "broadcast" /\ chats[i].sends # <<>>
    /\ chats[j].state = "failed" /\ handle[chats[j].task].state = "rejected"

\* C29: whatever fails while a chat message is processed (the dispatch, the
\* worker, the room lookup on a malformed message), the promise of
\* ChatStrategy.process is not rejected and nothing is thrown into the bus;
\* the failure is logged; and a message sent afterwards by a connection with
\* its listeners attached is processed all the same.
C29_ProcessNeverRejects ==
  \A i \in DOMAIN chats :
    /\ chats[i].promise # "rejected"
    /\ chats[i].state = "failed" => chats[i].logged /\ chats[i].promise = "fulfilled"
    /\ chats[i].kind = "chat" /\ chats[i].from \in attached =>
         chats[i].state # "ignored"

C29_Witness ==
  \E i, j \in DOMAIN chats :
    /\ i < j
    /\ chats[i].state = "failed" /\ chats[i].message = Null
    /\ handle[chats[i].task].state = "resolved"
    /\ chats[j].state = "broadcast"

\* ------------------------------------------------ claims: startup wiring
\* C26: when the transport reports a connection or a disconnect, every
\* handler the startup code registered for that event, on whichever bus it
\* registered it, has been invoked with the socket; so every connected
\* socket has its join:room and chat:message listeners attached.
C26_TransportReachesStartupHandlers ==
  /\ (Emitted /\ lastBusOp.event \in {"client:connect", "client:disconnect"}) =>
       LET registered == lastBusOp.before[1][lastBusOp.event]
                           \o lastBusOp.before[2][lastBusOp.event]
       IN  \A i \in DOMAIN registered :
             \E j \in DOMAIN lastBusOp.trace.invoked :
               /\ lastBusOp.trace.invoked[j].handler = registered[i].fn
               /\ lastBusOp.trace.invoked[j].args = lastBusOp.args
  /\ \A c \in Conns : conn[c] = "connected" => c \in attached

\* C27: at most one SocketManager is ever constructed, and every call of
\* SocketManager.getInstance, whether made by an index, by a Room being
\* constructed or directly, and in whatever order, returns the object the
\* first call returned; the same holds of EventEmitter.getInstance.
C27_OneInstance ==
  \A k \in SingletonClasses :
    /\ instances[k].constructed <= 1
    /\ instances[k].first # 0 =>
         /\ instances[k].last = instances[k].first
         /\ instances[k].held = instances[k].first

C27_Witness ==
  /\ started = "instance"
  /\ created = 2
  /\ instances["SocketManager"].constructed = 1
  /\ instances["SocketManager"].last = 1
  /\ instances["EventEmitter"].last = 1
  /\ lastRoomOp.op = "getRoom"

\* ------------------------------------------------ claims: failure reports
\* C30: when the strategy threw in the worker, whatever it threw, then once
\* the worker's report has been read the handle of the task is rejected and
\* nothing was published for it on the side channel.
C30_FailureReportRejects ==
  \A t \in Tasks :
    (worker[t] = "threw" /\ MessagesRead(t)) =>
      /\ handle[t].state = "rejected"
      /\ published[t] = <<>>

\* ------------------------------------------- claims: sessions and ordering
\* The chat message a step has just taken in, if it was handed to
\* ChatStrategy.process.
Dispatched ==
  /\ Len(chats') = Len(chats) + 1
  /\ chats'[Len(chats')].task > 0

\* C31: emitting chat:message comes back to the socket listener while the
\* worker task of the message is still pending: when the emit has returned
\* the handle is pending, the worker is running and the message waits for
\* it, so whatever comes in next is handled meanwhile.
C31_DispatchDoesNotBlock ==
  [][Dispatched =>
       LET sent == chats'[Len(chats')]
       IN  /\ sent.state = "awaiting"
           /\ handle'[sent.task].state = "pending"
           /\ worker'[sent.task] = "running"
           /\ lastBusOp'.op = "emit" /\ lastBusOp'.event = "chat:message"
           /\ ~lastBusOp'.trace.threw]_vars

\* C31 witness: while the first message's task is pending, a connection has
\* joined and another connection's later message has been broadcast.
C31_Witness ==
  \E i, j \in DOMAIN chats :
    /\ i < j
    /\ chats[i].state = "awaiting" /\ handle[chats[i].task].state = "pending"
    /\ chats[j].state = "broadcast" /\ chats[j].from # chats[i].from
    /\ lastRoomOp.op = "join"

\* A message whose broadcast a step has just made.
BroadcastNow(i) ==
  /\ i \in DOMAIN chats
  /\ chats[i].state = "awaiting"
  /\ chats'[i].state = "broadcast"

\* C34: a broadcast is sent only to connections that are open when it is
\* made: a closed connection is in no room, and the broadcast of a message
\* whose worker was started before a member closed and finished after goes
\* to open connections only.
C34_BroadcastOnlyToOpenConnections ==
  /\ [](\A c \in Conns : conn[c] = "closed" =>
          \A g \in GroupIds : ~IsMember(c, adapterRooms[g]))
  /\ [][\A i \in DOMAIN chats' :
          BroadcastNow(i) =>
            \A k \in DOMAIN chats'[i].sends :
              conn[chats'[i].sends[k].to] = "connected"]_vars

\* C34 witness: the sender had joined, closed while its task ran, and the
\* broadcast went to the other member only.
C34_Witness ==
  \E i \in DOMAIN chats :
    /\ chats[i].state = "broadcast"
    /\ chats[i].from \in chats[i].joined
    /\ conn[chats[i].from] = "closed"
    /\ chats[i].sends # <<>>
    /\ ~IsMember(chats[i].from, Targets(chats[i].sends))

\* Two messages of one connection for one room, both handed to a worker.
SamePair(i, j) ==
  /\ i < j
  /\ chats[i].from = chats[j].from
  /\ chats[i].message.roomId = chats[j].message.roomId
  /\ chats[i].task > 0 /\ chats[j].task > 0

\* C35 as stated: two chat messages sent by one connection to one room are
\* broadcast in the order in which they were sent: the later one is never
\* broadcast while the earlier one still waits for its worker.
C35_BroadcastInSendOrder ==
  [][\A j \in DOMAIN chats' :
       BroadcastNow(j) =>
         \A i \in DOMAIN chats : SamePair(i, j) => chats[i].state # "awaiting"]_vars

\* C35, amended: each message is broadcast in the very step in which its own
\* worker task resolves, whatever the state of the messages sent before it;
\* the broadcasts are in the order in which the workers finish.
C35_BroadcastInCompletionOrder ==
  [][\A j \in DOMAIN chats' :
       BroadcastNow(j) =>
         /\ handle[chats[j].task].state = "pending"
         /\ handle'[chats[j].task].state = "resolved"]_vars

\* C35 witness: the later of two messages has been broadcast, the earlier
\* one still waits.
C35_Witness ==
  \E i, j \in DOMAIN chats :
    /\ SamePair(i, j)
    /\ chats[j].state = "broadcast"
    /\ chats[i].state = "awaiting"

\* C36: a chat message whose task resolved is broadcast to the room of its
\* roomId whether or not its sender ever joined that room: every socket in
\* the room when the broadcast is made is sent it once, no other socket is,
\* and so the sender is sent it exactly when it is in the room itself.
C36_BroadcastWhateverTheSender ==
  /\ [](\A i \in DOMAIN chats :
          (chats[i].task > 0 /\ handle[chats[i].task].state = "resolved")
            => chats[i].state = "broadcast")
  /\ [][\A i \in DOMAIN chats' :
          BroadcastNow(i) =>
            LET members == adapterRooms[chats[i].message.roomId]
                sends == chats'[i].sends
            IN  /\ \A c \in Conns :
                     Occurrences(Targets(sends), c)
                       = IF IsMember(c, members) THEN 1 ELSE 0
                /\ \A k \in DOMAIN sends :
                     /\ sends[k].event = "chat:message"
                     /\ sends[k].payload = chats[i].message]_vars

\* C36 witness: the sender never sent join:room for the room; the member
\* was sent the message and the sender was not.
C36_Witness ==
  \E i \in DOMAIN chats :
    /\ chats[i].state = "broadcast"
    /\ <<chats[i].from, chats[i].message.roomId>> \notin sentJoin
    /\ chats[i].sends # <<>>
    /\ ~IsMember(chats[i].from, Targets(chats[i].sends))

\* A step that emits on a bus, and the connection the event is about.
EmitStep(event) ==
  /\ lastBusOp' # lastBusOp
  /\ lastBusOp'.op = "emit"
  /\ lastBusOp'.event = event
EmitConn == lastBusOp'.args[1].id

\* C38: client:connect is emitted for a connection exactly once, when it
\* opens, and client:disconnect at most once, when it closes after having
\* been open; chat:message is emitted for a connection only while it is
\* open, that is after its client:connect and before its client:disconnect.
C38_ConnectOnceBeforeChat ==
  [][/\ EmitStep("client:connect") =>
          conn[EmitConn] = "new" /\ conn'[EmitConn] = "connected"
     /\ EmitStep("client:disconnect") =>
          conn[EmitConn] = "connected" /\ conn'[EmitConn] = "closed"
     /\ EmitStep("chat:message") =>
          conn[EmitConn] = "connected" /\ conn'[EmitConn] = "connected"
     /\ \A c \in Conns :
          conn'[c] # conn[c] =>
            \/ /\ conn[c] = "new" /\ conn'[c] = "connected"
               /\ EmitStep("client:connect") /\ EmitConn = c
            \/ /\ conn[c] = "connected" /\ conn'[c] = "closed"
               /\ EmitStep("client:disconnect") /\ EmitConn = c]_vars

\* C38 witness: a connection opened, had a chat message emitted, and closed.
C38_Witness ==
  \E i \in DOMAIN chats :
    /\ chats[i].task > 0
    /\ conn[chats[i].from] = "closed"
    /\ lastBusOp.op = "emit" /\ lastBusOp.event = "client:disconnect"
    /\ lastBusOp.args[1].id = chats[i].from

\* ------------------------------------------------ claims: the room registry
\* The group ids the registry holds a Room for.
Registered == {g \in GroupIds : rooms[g] # NoRoom}
\* The group ids of the join:room events sent, and of the chat messages sent.
JoinIds == {g \in GroupIds : \E c \in Conns : <<c, g>> \in sentJoin}
ChatIds(states) ==
  {chats[i].message.roomId : i \in {k \in DOMAIN chats : chats[k].state \in states}}

\* C32: however the getRoom calls of join:room listeners and of task
\* continuations interleave, one Room has been constructed for each id the
\* registry holds, no more: the number of Rooms ever constructed is the
\* number of ids registered, and the Room under an id is the one made for it.
C32_OneRoomPerId ==
  /\ created = Cardinality(Registered)
  /\ \A g \in Registered : rooms[g].id = g
  /\ \A g, h \in Registered : rooms[g].inst = rooms[h].inst => g = h

\* C32 witness: a join:room listener and two task continuations have asked
\* for the same id.
C32_Witness ==
  \E i, j \in DOMAIN chats :
    /\ i < j
    /\ chats[i].state = "broadcast" /\ chats[j].state = "broadcast"
    /\ chats[i].message.roomId = chats[j].message.roomId
    /\ chats[i].message.roomId \in JoinIds
    /\ started = "static"

\* C33 as stated: at any time the registry holds a Room for exactly the
\* group ids referenced so far by a join:room or as the roomId of a
\* chat:message, and the Room under an id never changes or disappears.
C33_RegistryHoldsEveryReferencedId ==
  /\ [](Registered = JoinIds \cup ChatIds({"ignored", "awaiting", "broadcast", "failed"}))
  /\ [][\A g \in GroupIds : rooms[g] # NoRoom => rooms'[g] = rooms[g]]_vars

\* C33, amended: the registry holds a Room for exactly the ids getRoom has
\* been called with, which are the ids of the join:room events a socket
\* listener received and the roomIds of the chat messages whose worker task
\* resolved; the Room under an id never changes or disappears, also when the
\* last socket of its room closes.
C33_RegistryHoldsEveryLookedUpId ==
  /\ [](Registered = (IF started = "static" THEN JoinIds ELSE {})
                       \cup ChatIds({"broadcast"}))
  /\ [][\A g \in GroupIds : rooms[g] # NoRoom => rooms'[g] = rooms[g]]_vars

\* C33 witness: the only socket of a room has closed and the Room is kept.
C33_Witness ==
  \E g \in Registered, c \in Conns :
    /\ <<c, g>> \in sentJoin
    /\ conn[c] = "closed"
    /\ adapterRooms[g] = <<>>

====
